---- MODULE Spec2Model ----
(***************************************************************************)
(* A model of pkg/sql/schemachanger/rel/schema.go: the construction of a  *)
(* rel.Schema (NewSchema / MustSchema / buildSchema) and the accessors    *)
(* (value, comparableValue, inline) that addTypeAttrMapping generates for *)
(* every mapped field.                                                     *)
(*                                                                         *)
(* reflect.Type values are modelled by their names; the record types that *)
(* the schema is built over are the Go declarations                       *)
(*                                                                         *)
(*   type ID int16                     // has String(): a fmt.Stringer    *)
(*   type Inner struct { B int16; S string }                              *)
(*   type Base  struct { K int8; V uint8 }                                *)
(*   type T0 struct { X int16 }                                           *)
(*   type T1 struct { F bool; X int16; A Inner; P *int16; N *T2;          *)
(*                    Base; I ID; U *uint8 }                              *)
(*   type T2 struct { S string; X int8; Q *string }                       *)
(*   type T3 struct { D float64; L []int16; M map[string]int16; G func(); *)
(*                    C fmt.Stringer; PP **int16; PB *bool; PI *Inner }   *)
(***************************************************************************)
EXTENDS Integers, Sequences, FiniteSets, TLC

VARIABLES
  pc,        \* where the caller / buildSchema stands
  entry,     \* "NewSchema" or "MustSchema": the constructor that was called
  opts,      \* the option list the caller passes
  m,         \* schemaMappings: the options applied (buildSchema's var m)
  idx,       \* number of elements of the current loop already processed
  sb,        \* the schemaBuilder: the Schema under construction
  panicVal,  \* the value an aborted step panicked with (NoPanic: none)
  ret,       \* what the constructor returned to its caller
  prev,      \* the typID-by-type table of an earlier build of the same options
  heap,      \* caller-owned memory: address -> stored word
  writes,    \* number of writes the caller made to that memory
  res        \* the result of the last accessor call

vars == <<pc, entry, opts, m, idx, sb, panicVal, ret, prev, heap, writes, res>>

---------------------------------------------------------------------------
(* Bounds of the model.                                                    *)

\* longest option list a caller passes to NewSchema / MustSchema
MaxOpts == 2

\* longest list of record-type mappings built twice in two orders
MaxRankOpts == 3

\* most writes the caller makes to the memory of its records
MaxWrites == 2

\* width in bits of uintptr, scaled down so that 2^WordBits is representable
WordBits == 16

---------------------------------------------------------------------------
(* reflect: kinds, element types, struct fields, method sets.              *)

ScalarTypes == {"int8", "int16", "uint8", "string", "bool", "ID"}
StructTypes == {"T0", "T1", "T2", "T3", "Inner", "Base"}
PointerTypes == {"*int8", "*int16", "*uint8", "*string", "*ID", "*bool",
                 "**int16", "*T0", "*T1", "*T2", "*T3", "*Inner"}
InterfaceTypes == {"interface{}", "Stringer", "reflect.Type"}
OtherTypes == {"float64", "[]int16", "map[string]int16", "func()"}
Types == ScalarTypes \cup StructTypes \cup PointerTypes \cup InterfaceTypes
         \cup OtherTypes

emptyInterfaceType == "interface{}"
reflectTypeType == "reflect.Type"

\* reflect.Type.Kind
Kind(t) ==
  CASE t = "int8" -> "Int8"
    [] t \in {"int16", "ID"} -> "Int16"
    [] t = "uint8" -> "Uint8"
    [] t = "string" -> "String"
    [] t = "bool" -> "Bool"
    [] t = "float64" -> "Float64"
    [] t = "[]int16" -> "Slice"
    [] t = "map[string]int16" -> "Map"
    [] t = "func()" -> "Func"
    [] t \in StructTypes -> "Struct"
    [] t \in PointerTypes -> "Ptr"
    [] t \in InterfaceTypes -> "Interface"

\* reflect.Type.Elem of a pointer type
Elem(t) ==
  CASE t = "*int8" -> "int8"
    [] t = "*int16" -> "int16"
    [] t = "*uint8" -> "uint8"
    [] t = "*string" -> "string"
    [] t = "*ID" -> "ID"
    [] t = "*bool" -> "bool"
    [] t = "**int16" -> "*int16"
    [] t = "*Inner" -> "Inner"
    [] t = "*T3" -> "T3"
    [] t = "*T0" -> "T0"
    [] t = "*T1" -> "T1"
    [] t = "*T2" -> "T2"

\* reflect.PtrTo
PtrTo(t) == CHOOSE p \in PointerTypes : Elem(p) = t

\* reflect.Type.Implements: the method sets of the declared types
Implements(typ, iface) ==
  CASE iface = "interface{}" -> TRUE
    [] iface = "Stringer" -> typ \in {"ID", "*ID", "Stringer", "reflect.Type"}
    [] iface = "reflect.Type" -> typ = "reflect.Type"

isIntKind(kind) == kind \in {"Int", "Int8", "Int16", "Int32", "Int64"}
isUintKind(kind) == kind \in {"Uint", "Uint8", "Uint16", "Uint32", "Uint64"}

\* width in bits of an integer kind
KindBits(kind) ==
  CASE kind \in {"Int8", "Uint8"} -> 8
    [] kind \in {"Int16", "Uint16"} -> 16

StructField(name, typ, offset, anon) ==
  [Name |-> name, Type |-> typ, Offset |-> offset, Anonymous |-> anon]

\* the fields of each struct type, with the byte offset of each field
\* within its own struct (reflect.StructField.Offset)
Fields(t) ==
  CASE t = "T0" -> << StructField(<<"X">>, "int16", 0, FALSE) >>
    [] t = "Inner" -> << StructField(<<"B">>, "int16", 0, FALSE),
                         StructField(<<"S">>, "string", 8, FALSE) >>
    [] t = "Base" -> << StructField(<<"K">>, "int8", 0, FALSE),
                        StructField(<<"V">>, "uint8", 1, FALSE) >>
    [] t = "T1" -> << StructField(<<"F">>, "bool", 0, FALSE),
                      StructField(<<"X">>, "int16", 2, FALSE),
                      StructField(<<"A">>, "Inner", 8, FALSE),
                      StructField(<<"P">>, "*int16", 32, FALSE),
                      StructField(<<"N">>, "*T2", 40, FALSE),
                      StructField(<<"Base">>, "Base", 48, TRUE),
                      StructField(<<"I">>, "ID", 50, FALSE),
                      StructField(<<"U">>, "*uint8", 56, FALSE) >>
    [] t = "T2" -> << StructField(<<"S">>, "string", 0, FALSE),
                      StructField(<<"X">>, "int8", 16, FALSE),
                      StructField(<<"Q">>, "*string", 24, FALSE) >>
    [] t = "T3" -> << StructField(<<"D">>, "float64", 0, FALSE),
                      StructField(<<"L">>, "[]int16", 8, FALSE),
                      StructField(<<"M">>, "map[string]int16", 32, FALSE),
                      StructField(<<"G">>, "func()", 40, FALSE),
                      StructField(<<"C">>, "Stringer", 48, FALSE),
                      StructField(<<"PP">>, "**int16", 64, FALSE),
                      StructField(<<"PB">>, "*bool", 72, FALSE),
                      StructField(<<"PI">>, "*Inner", 80, FALSE) >>

NoField == [ok |-> FALSE, Offset |-> 0, Type |-> ""]

\* reflect.Type.FieldByName on a struct type: a field declared by the struct,
\* else a field promoted from exactly one embedded struct; the StructField
\* of a promoted field holds its offset within the embedded struct.
RECURSIVE FieldByName(_, _)
FieldByName(t, n) ==
  LET fs == Fields(t)
      direct == {i \in 1..Len(fs) : fs[i].Name = n}
      emb == {i \in 1..Len(fs) :
                /\ fs[i].Anonymous
                /\ Kind(fs[i].Type) = "Struct"
                /\ FieldByName(fs[i].Type, n).ok}
  IN IF direct # {}
       THEN LET i == CHOOSE i \in direct : TRUE
            IN [ok |-> TRUE, Offset |-> fs[i].Offset, Type |-> fs[i].Type]
     ELSE IF Cardinality(emb) = 1
       THEN LET i == CHOOSE i \in emb : TRUE
            IN FieldByName(fs[i].Type, n)
     ELSE NoField

---------------------------------------------------------------------------
(* Panics and errors.                                                      *)

NoPanic == [kind |-> "none", tag |-> "", attr |-> "", t1 |-> "", t2 |-> "",
            sel |-> <<>>]

\* panic(errors.Errorf(...)): an error value
ErrorPanic(tag, attr, t1, t2, sel) ==
  [kind |-> "error", tag |-> tag, attr |-> attr, t1 |-> t1, t2 |-> t2,
   sel |-> sel]

\* a panic raised by package reflect: a string, not an error value
ReflectPanic(t) ==
  [kind |-> "value", tag |-> "reflect: FieldByName of non-struct type",
   attr |-> "", t1 |-> t, t2 |-> "", sel |-> <<>>]

---------------------------------------------------------------------------
(* Selectors.                                                              *)

\* a split that gives no segment for the empty selector
RECURSIVE Split_dropEmpty(_)
Split_dropEmpty(s) ==
  LET dots == {i \in 1..Len(s) : s[i] = "."}
  IN IF s = <<>> THEN <<>>
     ELSE IF dots = {} THEN << s >>
     ELSE LET i == CHOOSE i \in dots : \A j \in dots : i <= j
          IN << SubSeq(s, 1, i - 1) >>
             \o Split_dropEmpty(SubSeq(s, i + 1, Len(s)))

\* strings.Split(selector, "."): a selector is a sequence of symbols, "."
\* the separator
RECURSIVE Split(_)
Split(s) ==
  LET dots == {i \in 1..Len(s) : s[i] = "."}
  IN IF dots = {} THEN << s >>
     ELSE LET i == CHOOSE i \in dots : \A j \in dots : i <= j
          IN << SubSeq(s, 1, i - 1) >> \o Split(SubSeq(s, i + 1, Len(s)))

\* the offset assigned instead of accumulated
addOffset_assign(offset, sf) == sf.Offset

\* offset += sf.Offset
addOffset(offset, sf) == offset + sf.Offset

\* a walk that goes on through a pointer to a struct
RECURSIVE walkSelector_throughPointers(_, _, _, _, _, _)
walkSelector_throughPointers(structPointer, selector, names, i, offset, cur) ==
  IF i > Len(names)
    THEN [panic |-> NoPanic, offset |-> offset, cur |-> cur]
  ELSE IF Kind(cur) = "Ptr" /\ Kind(Elem(cur)) = "Struct"
    THEN walkSelector_throughPointers(structPointer, selector, names, i,
                                      offset, Elem(cur))
  ELSE IF Kind(cur) # "Struct"
    THEN [panic |-> ReflectPanic(cur), offset |-> 0, cur |-> ""]
  ELSE LET found(sf) ==
             IF ~sf.ok
               THEN [panic |-> ErrorPanic("is not a field", "",
                                          structPointer, "", selector),
                     offset |-> 0, cur |-> ""]
             ELSE walkSelector_throughPointers(structPointer, selector,
                                               names, i + 1,
                                               addOffset(offset, sf), sf.Type)
       IN found(FieldByName(cur, names[i]))

RECURSIVE walkSelector(_, _, _, _, _, _)
walkSelector(structPointer, selector, names, i, offset, cur) ==
  IF i > Len(names)
    THEN [panic |-> NoPanic, offset |-> offset, cur |-> cur]
  ELSE IF Kind(cur) # "Struct"
    THEN [panic |-> ReflectPanic(cur), offset |-> 0, cur |-> ""]
  ELSE LET found(sf) ==
             IF ~sf.ok
               THEN [panic |-> ErrorPanic("is not a field", "",
                                          structPointer, "", selector),
                     offset |-> 0, cur |-> ""]
             ELSE walkSelector(structPointer, selector, names, i + 1,
                               addOffset(offset, sf), sf.Type)
       IN found(FieldByName(cur, names[i]))

getOffsetAndTypeFromSelector(structPointer, selector) ==
  walkSelector(structPointer, selector, Split(selector), 1, 0,
               Elem(structPointer))

---------------------------------------------------------------------------
(* Field flags.                                                            *)

isPtr(f) == "pointerField" \in f
isScalar(f) == f \cap {"intField", "stringField", "uintField"} # {}
isStruct(f) == "structField" \in f
isInt(f) == "intField" \in f
isUint(f) == "uintField" \in f
isIntLike(f) == f \cap {"intField", "uintField"} # {}
isString(f) == "stringField" \in f

\* makeFieldFlags that takes a struct held by value for a struct field
makeFieldFlags_structByValue(t) ==
  LET f == IF Kind(t) = "Ptr" THEN {"pointerField"} ELSE {}
      tt == IF Kind(t) = "Ptr" THEN Elem(t) ELSE t
      kind == Kind(tt)
  IN CASE kind = "Struct" ->
            [flags |-> f \cup {"structField"}, ok |-> TRUE]
       [] kind = "String" -> [flags |-> f \cup {"stringField"}, ok |-> TRUE]
       [] isIntKind(kind) ->
            [flags |-> f \cup {"intField"}, ok |-> TRUE]
       [] isUintKind(kind) ->
            [flags |-> f \cup {"uintField"}, ok |-> TRUE]
       [] OTHER -> [flags |-> {}, ok |-> FALSE]

makeFieldFlags(t) ==
  LET f == IF Kind(t) = "Ptr" THEN {"pointerField"} ELSE {}
      tt == IF Kind(t) = "Ptr" THEN Elem(t) ELSE t
      kind == Kind(tt)
  IN CASE kind = "Struct" /\ isPtr(f) ->
            [flags |-> f \cup {"structField"}, ok |-> TRUE]
       [] kind = "String" -> [flags |-> f \cup {"stringField"}, ok |-> TRUE]
       [] isIntKind(kind) ->
            [flags |-> f \cup {"intField"}, ok |-> TRUE]
       [] isUintKind(kind) ->
            [flags |-> f \cup {"uintField"}, ok |-> TRUE]
       [] OTHER -> [flags |-> {}, ok |-> FALSE]

---------------------------------------------------------------------------
(* The attribute registry.                                                 *)

\* the largest number of attributes a schema holds (scaled down)
maxUserAttribute == 6

Self == "Self"
Type == "Type"

NilError == [tag |-> "", t1 |-> "", t2 |-> ""]

\* checkType comparing the kinds of the two types, not the types
checkType_byKind(typ, exp) ==
  IF Kind(exp) = "Interface"
    THEN IF ~Implements(typ, exp)
           THEN [tag |-> "does not implement", t1 |-> typ, t2 |-> exp]
           ELSE NilError
    ELSE IF Kind(typ) # Kind(exp)
           THEN [tag |-> "is not", t1 |-> typ, t2 |-> exp]
           ELSE NilError

\* checkType without the interface case
checkType_exactOnly(typ, exp) ==
  IF typ # exp
    THEN [tag |-> "is not", t1 |-> typ, t2 |-> exp]
    ELSE NilError

\* checkType determines whether, either, the typ matches exp or the typ
\* implements exp which is an interface type.
checkType(typ, exp) ==
  IF Kind(exp) = "Interface"
    THEN IF ~Implements(typ, exp)
           THEN [tag |-> "does not implement", t1 |-> typ, t2 |-> exp]
           ELSE NilError
    ELSE IF typ # exp
           THEN [tag |-> "is not", t1 |-> typ, t2 |-> exp]
           ELSE NilError

\* the ordinal left at the zero value of the failed map lookup
nextOrdinal_zeroValue(b) == 0

\* ord = ordinal(len(sb.attrs))
nextOrdinal(b) == Len(b.attrs)

\* the test that lets one attribute too many in
tooManyAttributes_offByOne(ord) == ord > maxUserAttribute

\* ord >= maxUserAttribute
tooManyAttributes(ord) == ord >= maxUserAttribute

\* maybeAddAttribute that takes the type of an accepted later use for the
\* type of the attribute
maybeAddAttribute_narrowing(b, a, typ) ==
  LET logged(r) ==
        [r EXCEPT !.sb.calls =
           Append(@, [a |-> a, typ |-> typ,
                      prev |-> IF a \in DOMAIN b.attrToOrdinal
                                 THEN b.attrTypes[b.attrToOrdinal[a] + 1]
                                 ELSE "",
                      ord |-> r.ord,
                      panicked |-> r.panic # NoPanic])]
      added(ord) ==
        IF tooManyAttributes(ord)
          THEN [sb |-> b, ord |-> ord,
                panic |-> ErrorPanic("too many attributes", "", "", "",
                                     <<>>)]
          ELSE [sb |-> [b EXCEPT !.attrs = Append(@, a),
                                 !.attrTypes = Append(@, typ),
                                 !.attrToOrdinal = @ @@ (a :> ord)],
                ord |-> ord, panic |-> NoPanic]
      checked(ord, err) ==
        IF err # NilError
          THEN [sb |-> b, ord |-> ord,
                panic |-> ErrorPanic("type mismatch: " \o err.tag, a,
                                     err.t1, err.t2, <<>>)]
          ELSE [sb |-> [b EXCEPT !.attrTypes[ord + 1] = typ],
                ord |-> ord, panic |-> NoPanic]
  IN logged(IF a \notin DOMAIN b.attrToOrdinal
              THEN added(nextOrdinal(b))
              ELSE checked(b.attrToOrdinal[a],
                           checkType(typ,
                                     b.attrTypes[b.attrToOrdinal[a] + 1])))

\* b.calls is the history of the calls of maybeAddAttribute: the attribute,
\* the type passed, the type the attribute had before the call ("" when it
\* had none), the ordinal returned and whether the call panicked
maybeAddAttribute(b, a, typ) ==
  LET logged(r) ==
        [r EXCEPT !.sb.calls =
           Append(@, [a |-> a, typ |-> typ,
                      prev |-> IF a \in DOMAIN b.attrToOrdinal
                                 THEN b.attrTypes[b.attrToOrdinal[a] + 1]
                                 ELSE "",
                      ord |-> r.ord,
                      panicked |-> r.panic # NoPanic])]
      added(ord) ==
        IF tooManyAttributes(ord)
          THEN [sb |-> b, ord |-> ord,
                panic |-> ErrorPanic("too many attributes", "", "", "",
                                     <<>>)]
          ELSE [sb |-> [b EXCEPT !.attrs = Append(@, a),
                                 !.attrTypes = Append(@, typ),
                                 !.attrToOrdinal = @ @@ (a :> ord)],
                ord |-> ord, panic |-> NoPanic]
      checked(ord, err) ==
        IF err # NilError
          THEN [sb |-> b, ord |-> ord,
                panic |-> ErrorPanic("type mismatch: " \o err.tag, a,
                                     err.t1, err.t2, <<>>)]
          ELSE [sb |-> b, ord |-> ord, panic |-> NoPanic]
  IN logged(IF a \notin DOMAIN b.attrToOrdinal
              THEN added(nextOrdinal(b))
              ELSE checked(b.attrToOrdinal[a],
                           checkType(typ,
                                     b.attrTypes[b.attrToOrdinal[a] + 1])))

\* getOrdinal returning the count of attributes up to the one looked up
getOrdinal_count(sc, attribute) ==
  IF attribute \notin DOMAIN sc.attrToOrdinal
    THEN [ord |-> 0,
          err |-> ErrorPanic("unknown attribute", attribute, "", "", <<>>)]
    ELSE [ord |-> sc.attrToOrdinal[attribute] + 1, err |-> NoPanic]

\* Schema.getOrdinal: (ordinal, error)
getOrdinal(sc, attribute) ==
  IF attribute \notin DOMAIN sc.attrToOrdinal
    THEN [ord |-> 0,
          err |-> ErrorPanic("unknown attribute", attribute, "", "", <<>>)]
    ELSE [ord |-> sc.attrToOrdinal[attribute], err |-> NoPanic]

\* Schema.mustGetOrdinal: panics with getOrdinal's error
mustGetOrdinal(sc, attribute) ==
  LET got(r) == [ord |-> r.ord, panic |-> r.err]
  IN got(getOrdinal(sc, attribute))

---------------------------------------------------------------------------
(* Record-type mappings.                                                   *)

NoFieldInfo == [path |-> <<>>, typ |-> "", attr |-> 0, fieldFlags |-> {},
                offset |-> 0, cur |-> ""]

\* addTypeAttrMapping that registers the type of the field as it is
\* declared, the wrapper of an optional scalar included
addTypeAttrMapping_wrapperType(b, a, t, sel) ==
  LET field(flags, typ, offset, cur, added) ==
        [sb |-> added.sb,
         f |-> [path |-> sel, typ |-> typ, attr |-> added.ord,
                fieldFlags |-> flags, offset |-> offset, cur |-> cur],
         panic |-> added.panic]
      register(flags, typ, offset, cur) ==
        field(flags, typ, offset, cur, maybeAddAttribute(b, a, typ))
      classified(made, offset, cur) ==
        IF ~made.ok
          THEN [sb |-> b, f |-> NoFieldInfo,
                panic |-> ErrorPanic("has unsupported type", "", t, cur,
                                     sel)]
          ELSE register(made.flags, cur, offset, cur)
      resolved(r) ==
        IF r.panic # NoPanic
          THEN [sb |-> b, f |-> NoFieldInfo, panic |-> r.panic]
          ELSE classified(makeFieldFlags(r.cur), r.offset, r.cur)
  IN resolved(getOffsetAndTypeFromSelector(t, sel))

\* addTypeAttrMapping: the fieldInfo of selector sel of record type t; the
\* accessors it generates close over offset and cur, kept in the fieldInfo
addTypeAttrMapping(b, a, t, sel) ==
  LET field(flags, typ, offset, cur, added) ==
        [sb |-> added.sb,
         f |-> [path |-> sel, typ |-> typ, attr |-> added.ord,
                fieldFlags |-> flags, offset |-> offset, cur |-> cur],
         panic |-> added.panic]
      register(flags, typ, offset, cur) ==
        field(flags, typ, offset, cur, maybeAddAttribute(b, a, typ))
      classified(made, offset, cur) ==
        IF ~made.ok
          THEN [sb |-> b, f |-> NoFieldInfo,
                panic |-> ErrorPanic("has unsupported type", "", t, cur,
                                     sel)]
          ELSE register(made.flags,
                        IF isPtr(made.flags) /\ isScalar(made.flags)
                          THEN Elem(cur) ELSE cur,
                        offset, cur)
      resolved(r) ==
        IF r.panic # NoPanic
          THEN [sb |-> b, f |-> NoFieldInfo, panic |-> r.panic]
          ELSE classified(makeFieldFlags(r.cur), r.offset, r.cur)
  IN resolved(getOffsetAndTypeFromSelector(t, sel))

\* the (attribute, selector) pairs of a list of attrMappings, in the order
\* the two nested loops of maybeAddTypeMapping visit them
RECURSIVE selectorPairs(_)
selectorPairs(attributeMappings) ==
  IF attributeMappings = <<>> THEN <<>>
  ELSE LET am == Head(attributeMappings)
       IN [k \in 1..Len(am.selectors) |-> [a |-> am.a, sel |-> am.selectors[k]]]
          \o selectorPairs(Tail(attributeMappings))

RECURSIVE addSelectors(_, _, _, _, _)
addSelectors(b, t, pairs, i, fieldInfos) ==
  IF i > Len(pairs)
    THEN [sb |-> b, fieldInfos |-> fieldInfos, panic |-> NoPanic]
  ELSE LET added(r) ==
             IF r.panic # NoPanic
               THEN [sb |-> r.sb, fieldInfos |-> fieldInfos,
                     panic |-> r.panic]
               ELSE addSelectors(r.sb, t, pairs, i + 1,
                                 Append(fieldInfos, r.f))
       IN added(addTypeAttrMapping(b, pairs[i].a, t, pairs[i].sel))

swapElems(s, i, j) == [s EXCEPT ![i] = s[j], ![j] = s[i]]

\* the fieldInfos left in the order of the selectors
sortFieldInfos_unsorted(fs, i, j) == fs

\* sort.Slice(fieldInfos, less by attr): for a slice this short the
\* library runs an insertion sort
RECURSIVE sortFieldInfos(_, _, _)
sortFieldInfos(fs, i, j) ==
  IF i > Len(fs) THEN fs
  ELSE IF j > 1 /\ fs[j].attr < fs[j - 1].attr
    THEN sortFieldInfos(swapElems(fs, j, j - 1), i, j - 1)
  ELSE sortFieldInfos(fs, i + 1, i + 1)

\* the grouping loop of maybeAddTypeMapping: attributeFields[cur] is the
\* run fieldInfos[i:j] of equal attr that starts at i
RECURSIVE groupFieldInfos(_, _, _)
groupFieldInfos(fs, i, attributeFields) ==
  IF i > Len(fs) THEN attributeFields
  ELSE LET cur == fs[i].attr
           stops == {k \in (i + 1)..Len(fs) : fs[k].attr # cur}
           group(j) ==
             groupFieldInfos(fs, j,
               [o \in DOMAIN attributeFields \cup {cur} |->
                  IF o = cur THEN SubSeq(fs, i, j - 1)
                  ELSE attributeFields[o]])
       IN group(IF stops = {} THEN Len(fs) + 1
                ELSE CHOOSE k \in stops : \A l \in stops : k <= l)

\* isStructPointer that takes any pointer type
isStructPointer_anyPointer(tt) == Kind(tt) = "Ptr"

isStructPointer(tt) == Kind(tt) = "Ptr" /\ Kind(Elem(tt)) = "Struct"

\* the entityTypeSchema values are allocated in b.objs; entityTypes and
\* entityTypeSchemas hold pointers to them (indexes of b.objs)
maybeAddTypeMapping(b, t, attributeMappings) ==
  LET add(c, fieldInfos) ==
        [sb |-> [c EXCEPT
                   !.objs = Append(@, [typ |-> t,
                                       fields |-> fieldInfos,
                                       attrFields |->
                                         groupFieldInfos(fieldInfos, 1, <<>>),
                                       typID |-> Len(c.entityTypes)]),
                   !.entityTypeSchemas =
                      [x \in DOMAIN @ \cup {t} |->
                         IF x = t THEN Len(c.objs) + 1 ELSE @[x]],
                   !.entityTypes = Append(@, Len(c.objs) + 1)],
         panic |-> NoPanic]
      mapped(r) ==
        IF r.panic # NoPanic THEN [sb |-> r.sb, panic |-> r.panic]
        ELSE add(r.sb, sortFieldInfos(r.fieldInfos, 2, 2))
  IN IF ~isStructPointer(t)
       THEN [sb |-> b,
             panic |-> ErrorPanic("is not a pointer to a struct", "", t, "",
                                  <<>>)]
     ELSE mapped(addSelectors(b, t, selectorPairs(attributeMappings), 1,
                              <<>>))

---------------------------------------------------------------------------
(* The canonical order of the entity types.                                *)

\* the position of a type's fully qualified name among the names
NameKey(t) ==
  CASE t = "*T0" -> 0
    [] t = "*T1" -> 1
    [] t = "*T2" -> 2
    [] t = "*T3" -> 3
    [] OTHER -> 4

compareTypes(a, b) == [less |-> NameKey(a) < NameKey(b), eq |-> a = b]

entityTypeSchemaSortLen(e) == Cardinality(DOMAIN e.entityTypeSchemas)

entityTypeSchemaSortLess(e, i, j) ==
  compareTypes(e.objs[e.entityTypes[i + 1]].typ,
               e.objs[e.entityTypes[j + 1]].typ).less

entityTypeSchemaSortSwap(e, i, j) ==
  LET second(objs) == [objs EXCEPT ![e.entityTypes[j + 1]].typID = i]
      first(objs) == [objs EXCEPT ![e.entityTypes[i + 1]].typID = j]
  IN [e EXCEPT !.objs = second(first(@)),
               !.entityTypes = swapElems(@, i + 1, j + 1)]

\* sort.Sort(data): n := data.Len(), then, for so few elements, the
\* insertion sort   for i := 1; i < n; i++ {
\*                    for j := i; j > 0 && data.Less(j, j-1); j-- {
\*                      data.Swap(j, j-1) } }
RECURSIVE insertionSort(_, _, _, _)
insertionSort(e, n, i, j) ==
  IF i >= n THEN e
  ELSE IF j > 0 /\ entityTypeSchemaSortLess(e, j, j - 1)
    THEN insertionSort(entityTypeSchemaSortSwap(e, j, j - 1), n, i, j - 1)
  ELSE insertionSort(e, n, i + 1, i + 1)

sortSort(e) == insertionSort(e, entityTypeSchemaSortLen(e), 1, 1)

---------------------------------------------------------------------------
(* Options.                                                                *)

\* rel.AttrType(a, typ)
AttrType(a, typ) ==
  [kind |-> "AttrType", a |-> a, typ |-> typ, attrMappings |-> <<>>]

\* rel.EntityAttr(a, selectors...)
EntityAttr(a, selectors) == [a |-> a, selectors |-> selectors]

\* rel.EntityMapping(typ, attrMappings...)
EntityMapping(typ, attrMappings) ==
  [kind |-> "EntityMapping", a |-> "", typ |-> typ,
   attrMappings |-> attrMappings]

isAttrType(o) == o.kind = "AttrType"
isEntityMapping(o) == o.kind = "EntityMapping"

\* the first mapping of an option list, 0 when it has none
firstMapping(os) ==
  IF \E i \in 1..Len(os) : isEntityMapping(os[i])
    THEN CHOOSE i \in 1..Len(os) :
           /\ isEntityMapping(os[i])
           /\ \A j \in 1..(i - 1) : ~isEntityMapping(os[j])
    ELSE 0

\* options applied so that a declaration that follows a mapping is dropped
applyOptions_untilMapping(os) ==
  [attrTypes |-> SelectSeq(IF firstMapping(os) = 0 THEN os
                           ELSE SubSeq(os, 1, firstMapping(os)), isAttrType),
   entityMappings |-> SelectSeq(os, isEntityMapping)]

\* opt.apply(&m) for every option: the declarations and the mappings are
\* collected apart, each kind in the order of the option list
applyOptions(os) ==
  [attrTypes |-> SelectSeq(os, isAttrType),
   entityMappings |-> SelectSeq(os, isEntityMapping)]

AttrTypeOptions ==
  { AttrType("X", "int16"), AttrType("X", "Stringer"),
    AttrType("X", "ID"), AttrType("Z", "string"), AttrType("V", "int8"),
    AttrType(Self, emptyInterfaceType), AttrType(Type, "Stringer") }

\* a mapping of every kind of field of T1
T1Mapping ==
  EntityMapping("*T1",
    << EntityAttr("X", << <<"X">>, <<"P">>, <<"A", ".", "B">> >>),
       EntityAttr("Y", << <<"A", ".", "S">> >>),
       EntityAttr("N", << <<"N">> >>),
       EntityAttr("U", << <<"U">> >>) >>)

\* a mapping of T1 with maxUserAttribute attributes
WideMapping ==
  EntityMapping("*T1",
    << EntityAttr("X", << <<"X">> >>),
       EntityAttr("Y", << <<"A", ".", "S">> >>),
       EntityAttr("N", << <<"N">> >>),
       EntityAttr("U", << <<"U">> >>),
       EntityAttr("B", << <<"A", ".", "B">> >>),
       EntityAttr("P", << <<"P">> >>) >>)

\* a mapping of T1 that names the attribute X twice, around another one
InterleavedMapping ==
  EntityMapping("*T1",
    << EntityAttr("X", << <<"X">> >>),
       EntityAttr("Y", << <<"A", ".", "S">> >>),
       EntityAttr("X", << <<"P">>, <<"X">> >>) >>)

EntityMappingOptions ==
  { EntityMapping("*T1", << EntityAttr("X", << <<"X">> >>) >>),
    EntityMapping("*T1", << EntityAttr("X", << <<"P">> >>) >>),
    EntityMapping("*T1", << EntityAttr("X", << <<"A", ".", "B">> >>) >>),
    EntityMapping("*T1", << EntityAttr("X", << <<"X">>, <<"A", ".", "B">> >>) >>),
    EntityMapping("*T1", << EntityAttr("Y", << <<"A", ".", "S">> >>),
                            EntityAttr("X", << <<"X">> >>) >>),
    EntityMapping("*T1", << EntityAttr("Y", << <<"A", ".", "Z">> >>) >>),
    EntityMapping("*T1", << EntityAttr("Y", << <<>> >>) >>),
    EntityMapping("*T1", << EntityAttr("Y", << <<"F">> >>) >>),
    EntityMapping("*T1", << EntityAttr("Y", << <<"N", ".", "S">> >>) >>),
    EntityMapping("*T1", << EntityAttr("Y", << <<"N">> >>) >>),
    EntityMapping("*T1", << EntityAttr("Y", << <<"X", ".", "B">> >>) >>),
    EntityMapping("*T3", << EntityAttr("Y", << <<"L", ".", "S">> >>) >>),
    EntityMapping("*T1", << EntityAttr("X", << <<"I">> >>) >>),
    EntityMapping("*T1", << EntityAttr("X", << <<"K">> >>) >>),
    EntityMapping("*T2", << EntityAttr("X", << <<"X">> >>) >>),
    EntityMapping("*T2", << EntityAttr("Y", << <<"S">> >>) >>),
    EntityMapping("*T0", << EntityAttr("X", << <<"X">> >>) >>),
    EntityMapping("T1", <<>>),
    T1Mapping,
    WideMapping,
    InterleavedMapping,
    EntityMapping("*T1", << EntityAttr("Y", << <<"A">> >>) >>),
    EntityMapping("*T2", << EntityAttr("Y", << <<"Q">> >>) >>),
    EntityMapping("T1", << EntityAttr("Q", << <<"X">> >>) >>),
    EntityMapping("*T1", << EntityAttr(Self, << <<"N">> >>) >>),
    EntityMapping("*int16", << EntityAttr("Q", << <<"X">> >>) >>) }
  \cup { EntityMapping("*T3", << EntityAttr("Y", << <<n>> >>) >>) :
           n \in {"D", "L", "M", "G", "C", "PP", "PB", "PI"} }

Options == AttrTypeOptions \cup EntityMappingOptions

\* the options of the schemas that are built twice, in two orders
RankOptions ==
  { AttrType("X", "int16"),
    EntityMapping("*T0", << EntityAttr("X", << <<"X">> >>) >>),
    EntityMapping("*T1", << EntityAttr("X", << <<"X">> >>) >>),
    EntityMapping("*T2", << EntityAttr("X", << <<"X">> >>) >>) }

---------------------------------------------------------------------------
(* buildSchema, NewSchema, MustSchema.                                     *)

\* the schemaBuilder buildSchema starts from; calls is the history of the
\* calls of maybeAddAttribute
newSchemaBuilder ==
  [attrs |-> <<>>, attrTypes |-> <<>>, attrToOrdinal |-> <<>>,
   objs |-> <<>>, entityTypes |-> <<>>, entityTypeSchemas |-> <<>>,
   typeOrdinal |-> 0, selfOrdinal |-> 0, calls |-> <<>>]

NilErr == [isNil |-> TRUE, msg |-> "", cause |-> NoPanic]
NotReturned == [schema |-> "nil", err |-> NilErr, panic |-> NoPanic]
NoPrev == [built |-> FALSE, typID |-> <<>>]
NoResult == [op |-> "none", fresh |-> FALSE]

\* the typID of every record type, looked up by type
typIDs(sc) ==
  [t \in DOMAIN sc.entityTypeSchemas |-> sc.objs[sc.entityTypeSchemas[t]].typID]

\* the reserved attributes registered in the other order, Type before Self
addReserved_typeFirst(b) ==
  LET selfOrd(c, o) ==
        IF o.panic # NoPanic THEN [sb |-> c, panic |-> o.panic]
        ELSE [sb |-> [c EXCEPT !.selfOrdinal = o.ord], panic |-> NoPanic]
      selfAdded(r) ==
        IF r.panic # NoPanic THEN [sb |-> r.sb, panic |-> r.panic]
        ELSE selfOrd(r.sb, mustGetOrdinal(r.sb, Self))
      typeOrd(c, o) ==
        IF o.panic # NoPanic THEN [sb |-> c, panic |-> o.panic]
        ELSE selfAdded(maybeAddAttribute([c EXCEPT !.typeOrdinal = o.ord],
                                         Self, emptyInterfaceType))
      typeAdded(r) ==
        IF r.panic # NoPanic THEN [sb |-> r.sb, panic |-> r.panic]
        ELSE typeOrd(r.sb, mustGetOrdinal(r.sb, Type))
  IN typeAdded(maybeAddAttribute(b, Type, reflectTypeType))

\* sb.maybeAddAttribute(Self, ...) ... sb.typeOrdinal = sb.mustGetOrdinal(Type)
addReserved(b) ==
  LET typeOrd(c, o) ==
        IF o.panic # NoPanic THEN [sb |-> c, panic |-> o.panic]
        ELSE [sb |-> [c EXCEPT !.typeOrdinal = o.ord], panic |-> NoPanic]
      typeAdded(r) ==
        IF r.panic # NoPanic THEN [sb |-> r.sb, panic |-> r.panic]
        ELSE typeOrd(r.sb, mustGetOrdinal(r.sb, Type))
      selfOrd(c, o) ==
        IF o.panic # NoPanic THEN [sb |-> c, panic |-> o.panic]
        ELSE typeAdded(maybeAddAttribute([c EXCEPT !.selfOrdinal = o.ord],
                                         Type, reflectTypeType))
      selfAdded(r) ==
        IF r.panic # NoPanic THEN [sb |-> r.sb, panic |-> r.panic]
        ELSE selfOrd(r.sb, mustGetOrdinal(r.sb, Self))
  IN selfAdded(maybeAddAttribute(b, Self, emptyInterfaceType))

Init ==
  /\ pc = "caller"
  /\ entry = ""
  /\ opts = <<>>
  /\ m = applyOptions(<<>>)
  /\ idx = 0
  /\ sb = newSchemaBuilder
  /\ panicVal = NoPanic
  /\ ret = NotReturned
  /\ prev = NoPrev
  /\ heap = <<>>
  /\ writes = 0
  /\ res = NoResult

\* the caller adds an option to the list it will pass
AddOption ==
  /\ pc = "caller"
  /\ Len(opts) < MaxOpts
  /\ \E o \in Options : opts' = Append(opts, o)
  /\ UNCHANGED <<pc, entry, m, idx, sb, panicVal, ret, prev, heap, writes, res>>

AddRankOption ==
  /\ pc = "caller"
  /\ Len(opts) < MaxRankOpts
  /\ \E o \in RankOptions : opts' = Append(opts, o)
  /\ UNCHANGED <<pc, entry, m, idx, sb, panicVal, ret, prev, heap, writes, res>>

\* the constructor is entered: buildSchema applies the options and makes
\* the schemaBuilder
enter(e, os) ==
  /\ entry' = e
  /\ opts' = os
  /\ m' = applyOptions(os)
  /\ sb' = newSchemaBuilder
  /\ idx' = 0
  /\ pc' = "build"
  /\ panicVal' = NoPanic
  /\ ret' = NotReturned

CallNewSchema ==
  /\ pc = "caller"
  /\ enter("NewSchema", opts)
  /\ UNCHANGED <<prev, heap, writes, res>>

CallMustSchema ==
  /\ pc = "caller"
  /\ enter("MustSchema", opts)
  /\ UNCHANGED <<prev, heap, writes, res>>

\* a step of buildSchema ends: it panicked, or the next step follows
stepEnds(r) ==
  /\ sb' = r.sb
  /\ IF r.panic = NoPanic
       THEN /\ idx' = idx + 1
            /\ UNCHANGED <<pc, panicVal>>
       ELSE /\ pc' = "unwind"
            /\ panicVal' = r.panic
            /\ UNCHANGED idx
  /\ UNCHANGED <<entry, opts, m, ret, prev, heap, writes, res>>

nAttrTypes == Len(m.attrTypes)
nEntityMappings == Len(m.entityMappings)

\* for _, t := range m.attrTypes { sb.maybeAddAttribute(t.a, t.typ) }
AddAttribute ==
  /\ pc = "build"
  /\ idx < nAttrTypes
  /\ LET t == m.attrTypes[idx + 1]
     IN stepEnds(maybeAddAttribute(sb, t.a, t.typ))

\* for _, tm := range m.entityMappings { sb.maybeAddTypeMapping(...) }
AddTypeMapping ==
  /\ pc = "build"
  /\ idx >= nAttrTypes
  /\ idx < nAttrTypes + nEntityMappings
  /\ LET tm == m.entityMappings[idx - nAttrTypes + 1]
     IN stepEnds(maybeAddTypeMapping(sb, tm.typ, tm.attrMappings))

AddReserved ==
  /\ pc = "build"
  /\ idx = nAttrTypes + nEntityMappings
  /\ stepEnds(addReserved(sb))

\* sort.Sort((*entityTypeSchemaSort)(sb.Schema))
SortEntityTypes ==
  /\ pc = "build"
  /\ idx = nAttrTypes + nEntityMappings + 1
  /\ stepEnds([sb |-> sortSort(sb), panic |-> NoPanic])

\* buildSchema returns sb.Schema; NewSchema returns (sc, nil), MustSchema sc
Return ==
  /\ pc = "build"
  /\ idx = nAttrTypes + nEntityMappings + 2
  /\ ret' = [schema |-> "sb.Schema", err |-> NilErr, panic |-> NoPanic]
  /\ pc' = "done"
  /\ UNCHANGED <<entry, opts, m, idx, sb, panicVal, prev, heap, writes, res>>

\* a deferred function without the default case
recovered_errorsOnly(r) ==
  IF r.kind = "error"
    THEN [schema |-> "nil",
          err |-> [isNil |-> FALSE, msg |-> "failed to construct schema",
                   cause |-> r],
          panic |-> NoPanic]
    ELSE [schema |-> "nil", err |-> NilErr, panic |-> NoPanic]

\* a deferred function that panics again with a value that is no error
recovered_rethrowing(r) ==
  IF r.kind = "error"
    THEN [schema |-> "nil",
          err |-> [isNil |-> FALSE, msg |-> "failed to construct schema",
                   cause |-> r],
          panic |-> NoPanic]
    ELSE [schema |-> "nil", err |-> NilErr, panic |-> r]

\* the deferred function of NewSchema: recover() gave r, not nil
recovered(r) ==
  IF r.kind = "error"
    THEN [schema |-> "nil",
          err |-> [isNil |-> FALSE, msg |-> "failed to construct schema",
                   cause |-> r],
          panic |-> NoPanic]
    ELSE [schema |-> "nil",
          err |-> [isNil |-> FALSE,
                   msg |-> "assertion: failed to construct schema",
                   cause |-> r],
          panic |-> NoPanic]

Recover ==
  /\ pc = "unwind"
  /\ entry = "NewSchema"
  /\ ret' = recovered(panicVal)
  /\ pc' = "done"
  /\ UNCHANGED <<entry, opts, m, idx, sb, panicVal, prev, heap, writes, res>>

\* MustSchema recovers nothing: the panic reaches its caller
Propagate ==
  /\ pc = "unwind"
  /\ entry = "MustSchema"
  /\ ret' = [schema |-> "nil", err |-> NilErr, panic |-> panicVal]
  /\ pc' = "done"
  /\ UNCHANGED <<entry, opts, m, idx, sb, panicVal, prev, heap, writes, res>>

\* the constructor returned a schema
built == pc = "done" /\ ret.schema = "sb.Schema"

Next ==
  \/ AddOption
  \/ CallNewSchema
  \/ CallMustSchema
  \/ AddAttribute
  \/ AddTypeMapping
  \/ AddReserved
  \/ SortEntityTypes
  \/ Return
  \/ Recover
  \/ Propagate

Spec == Init /\ [][Next]_vars

---------------------------------------------------------------------------
(* The same options built a second time, in another order.                 *)

orders(n) ==
  {p \in [1..n -> 1..n] : \A i, j \in 1..n : p[i] = p[j] => i = j}

\* the caller keeps the typIDs of the schema it built and builds a schema
\* from the same options in a different order
Rebuild ==
  /\ built
  /\ ~prev.built
  /\ \E p \in orders(Len(opts)) :
       /\ \E i \in 1..Len(opts) : p[i] # i
       /\ enter(entry, [i \in 1..Len(opts) |-> opts[p[i]]])
  /\ prev' = [built |-> TRUE, typID |-> typIDs(sb)]
  /\ UNCHANGED <<heap, writes, res>>

NextRebuild ==
  \/ AddRankOption
  \/ CallNewSchema
  \/ CallMustSchema
  \/ AddAttribute
  \/ AddTypeMapping
  \/ AddReserved
  \/ SortEntityTypes
  \/ Return
  \/ Recover
  \/ Propagate
  \/ Rebuild

SpecRebuild == Init /\ [][NextRebuild]_vars

---------------------------------------------------------------------------
(* The same options given to the other constructor.                        *)

otherConstructor(e) == IF e = "NewSchema" THEN "MustSchema" ELSE "NewSchema"

\* the caller keeps what the constructor gave and calls the other
\* constructor with the same options
CallOther ==
  /\ pc = "done"
  /\ prev = NoPrev
  /\ enter(otherConstructor(entry), opts)
  /\ prev' = [built |-> FALSE, typID |-> <<>>, entry |-> entry, ret |-> ret,
              sb |-> sb]
  /\ UNCHANGED <<heap, writes, res>>

NextBoth ==
  \/ AddOption
  \/ CallNewSchema
  \/ CallMustSchema
  \/ AddAttribute
  \/ AddTypeMapping
  \/ AddReserved
  \/ SortEntityTypes
  \/ Return
  \/ Recover
  \/ Propagate
  \/ CallOther

SpecBoth == Init /\ [][NextBoth]_vars

---------------------------------------------------------------------------
(* The accessors of a fieldInfo, and the memory they read.                 *)

\* buildSchema as one function of the applied options: step k of the build
buildStep(mm, k, b) ==
  IF k < Len(mm.attrTypes)
    THEN maybeAddAttribute(b, mm.attrTypes[k + 1].a, mm.attrTypes[k + 1].typ)
  ELSE IF k < Len(mm.attrTypes) + Len(mm.entityMappings)
    THEN maybeAddTypeMapping(
           b, mm.entityMappings[k - Len(mm.attrTypes) + 1].typ,
           mm.entityMappings[k - Len(mm.attrTypes) + 1].attrMappings)
  ELSE IF k = Len(mm.attrTypes) + Len(mm.entityMappings)
    THEN addReserved(b)
  ELSE [sb |-> sortSort(b), panic |-> NoPanic]

RECURSIVE buildSchema(_, _, _)
buildSchema(mm, k, b) ==
  IF k = Len(mm.attrTypes) + Len(mm.entityMappings) + 2
    THEN [sb |-> b, panic |-> NoPanic]
  ELSE LET stepped(r) ==
             IF r.panic # NoPanic THEN r ELSE buildSchema(mm, k + 1, r.sb)
       IN stepped(buildStep(mm, k, b))

\* the options of the schema whose accessors are called
AccessOptions == << T1Mapping >>

\* the records the caller owns: two T1 at E1 and E2, two T2 (equal field by
\* field) at R1 and R2, and the int16 and uint8 variables V1, V2 and V3 that
\* optional fields point to
E1 == 1000
E2 == 2000
R1 == 4000
R2 == 5000
V1 == 3000
V2 == 3008
V3 == 3100

Entities == {E1, E2}

\* the memory of a T1 at base
recordT1(base, x, pp, n, u) ==
  (base :> FALSE) @@ (base + 2 :> x) @@ (base + 8 :> 7)
  @@ (base + 16 :> "a") @@ (base + 32 :> pp) @@ (base + 40 :> n)
  @@ (base + 48 :> 1) @@ (base + 49 :> 2) @@ (base + 50 :> 5)
  @@ (base + 56 :> u)

\* the memory of a T2 at base
recordT2(base) == (base :> "s") @@ (base + 16 :> 3) @@ (base + 24 :> 0)

InitialHeap ==
  recordT1(E1, 7, 0, 0, 0) @@ recordT1(E2, 7, 0, R2, 0)
  @@ recordT2(R1) @@ recordT2(R2)
  @@ (V1 :> 7) @@ (V2 :> 7) @@ (V3 :> 200)

\* the words the caller writes, and the values it writes to each
Writable ==
  (E1 + 2 :> {-32768, -1, 0, 7}) @@ (E2 + 2 :> {-7, -1, 7, 32767})
  @@ (E1 + 16 :> {"a", "zz"})
  @@ (E1 + 32 :> {0, V1, V2}) @@ (E2 + 32 :> {0, V1, V2})
  @@ (E1 + 40 :> {0, R1, R2}) @@ (E1 + 56 :> {0, V3})
  @@ (V1 :> {-1, 7}) @@ (V2 :> {-1, 7})

\* an interface{} value: its dynamic type and its value (an address when
\* the type is a pointer type)
Interface(typ, val) == [typ |-> typ, val |-> val]
nilInterface == Interface("nil", 0)

\* makeValueGetter(t, offset)(u) = reflect.NewAt(t, u + offset): a Value
\* that is a pointer to the t at u + offset
makeValueGetter(t, offset, u) == [typ |-> t, val |-> u + offset]

\* getPtrValue without the IsNil test: an unset pointer is returned as a
\* typed nil pointer, not as nil
getPtrValue_noNilCheck(h, t, got) == Interface(t, h[got.val])

\* getPtrValue(vg)(u): got := vg(u), a pointer to a pointer of type t
getPtrValue(h, t, got) ==
  IF h[got.val] = 0 THEN nilInterface
  ELSE Interface(t, h[got.val])

\* a conversion that keeps the magnitude of x and drops its sign
uintptrOf_magnitude(x) == IF x < 0 THEN (0 - x) % (2 ^ WordBits) ELSE x

\* uintptr(x)
uintptrOf(x) == x % (2 ^ WordBits)

\* f.value that returns an optional scalar without dereferencing it
value_wrapper(f, h, u) ==
  IF isPtr(f.fieldFlags)
    THEN getPtrValue(h, f.cur, makeValueGetter(f.cur, f.offset, u))
  ELSE Interface(f.cur, h[u + f.offset])

\* f.value without the Elem() of a plain field: vg(u).Interface()
value_pointer(f, h, u) ==
  IF isPtr(f.fieldFlags) /\ isStruct(f.fieldFlags)
    THEN getPtrValue(h, f.cur, makeValueGetter(f.cur, f.offset, u))
  ELSE IF isPtr(f.fieldFlags) /\ isScalar(f.fieldFlags)
    THEN IF h[u + f.offset] = 0 THEN nilInterface
         ELSE Interface(Elem(f.cur), h[h[u + f.offset]])
  ELSE Interface(PtrTo(f.cur), u + f.offset)

\* f.value
value(f, h, u) ==
  IF isPtr(f.fieldFlags) /\ isStruct(f.fieldFlags)
    THEN getPtrValue(h, f.cur, makeValueGetter(f.cur, f.offset, u))
  ELSE IF isPtr(f.fieldFlags) /\ isScalar(f.fieldFlags)
    THEN IF h[u + f.offset] = 0 THEN nilInterface
         ELSE Interface(Elem(f.cur), h[h[u + f.offset]])
  ELSE Interface(f.cur, h[u + f.offset])

\* f.inline that reports a plain integer present when it is not zero
inline_nonzeroPresent(f, h, u) ==
  CASE isPtr(f.fieldFlags) /\ isIntLike(f.fieldFlags) ->
         IF h[u + f.offset] = 0 THEN <<0, FALSE>>
         ELSE <<uintptrOf(h[h[u + f.offset]]), TRUE>>
    [] ~isPtr(f.fieldFlags) /\ isIntLike(f.fieldFlags) ->
         <<uintptrOf(h[u + f.offset]), h[u + f.offset] # 0>>
    [] isString(f.fieldFlags) \/ isStruct(f.fieldFlags) -> <<0, FALSE>>

\* f.inline
inline(f, h, u) ==
  CASE isPtr(f.fieldFlags) /\ isIntLike(f.fieldFlags) ->
         IF h[u + f.offset] = 0 THEN <<0, FALSE>>
         ELSE <<uintptrOf(h[h[u + f.offset]]), TRUE>>
    [] ~isPtr(f.fieldFlags) /\ isIntLike(f.fieldFlags) ->
         <<uintptrOf(h[u + f.offset]), TRUE>>
    [] isString(f.fieldFlags) \/ isStruct(f.fieldFlags) -> <<0, FALSE>>

\* the primitive type of the kind of t
getComparableType(t) ==
  CASE Kind(t) = "Int8" -> "int8"
    [] Kind(t) = "Int16" -> "int16"
    [] Kind(t) = "Uint8" -> "uint8"
    [] Kind(t) = "String" -> "string"

\* f.comparableValue that takes the optional wrapper for the value
comparableValue_wrapper(f, h, u) ==
  IF isStruct(f.fieldFlags)
    THEN getPtrValue(h, f.cur, makeValueGetter(f.cur, f.offset, u))
  ELSE Interface(PtrTo(getComparableType(f.typ)), u + f.offset)

\* f.comparableValue
comparableValue(f, h, u) ==
  IF isStruct(f.fieldFlags)
    THEN getPtrValue(h, f.cur, makeValueGetter(f.cur, f.offset, u))
  ELSE IF isPtr(f.fieldFlags) /\ isScalar(f.fieldFlags)
    THEN getPtrValue(h, PtrTo(getComparableType(f.typ)),
                     makeValueGetter(PtrTo(getComparableType(f.typ)),
                                     f.offset, u))
  ELSE Interface(PtrTo(getComparableType(f.typ)), u + f.offset)

\* the fieldInfos of the entity type schema of *T1
fieldsOfT1 ==
  {sb.objs[sb.entityTypeSchemas["*T1"]].fields[i] :
     i \in 1..Len(sb.objs[sb.entityTypeSchemas["*T1"]].fields)}

AccessInit ==
  /\ pc = "done"
  /\ entry = "MustSchema"
  /\ opts = AccessOptions
  /\ m = applyOptions(AccessOptions)
  /\ idx = Len(AccessOptions) + 2
  /\ sb = buildSchema(applyOptions(AccessOptions), 0, newSchemaBuilder).sb
  /\ panicVal = NoPanic
  /\ ret = [schema |-> "sb.Schema", err |-> NilErr, panic |-> NoPanic]
  /\ prev = NoPrev
  /\ heap = InitialHeap
  /\ writes = 0
  /\ res = NoResult

\* the caller writes a field of a record it owns, or a variable
Write ==
  /\ writes < MaxWrites
  /\ writes' = writes + 1
  /\ \E a \in DOMAIN Writable : \E v \in Writable[a] :
       /\ heap[a] # v
       /\ heap' = [heap EXCEPT ![a] = v]
  /\ res' = [res EXCEPT !.fresh = FALSE]
  /\ UNCHANGED <<pc, entry, opts, m, idx, sb, panicVal, ret, prev>>

\* what the holder of the result out of accessor op of f sees in it, the
\* memory being h: what a pointer to a scalar points to, any other result
\* itself
denoted(op, scalar, out, h) ==
  IF op = "comparableValue" /\ scalar /\ out # nilInterface
    THEN <<h[out.val]>>
  ELSE <<out>>

\* the result of a call, with what the caller saw in it when it returned
called(op, f, u, out, u2, out2) ==
  [op |-> op, path |-> f.path, u |-> u, out |-> out, u2 |-> u2,
   out2 |-> out2, fresh |-> TRUE,
   seen |-> denoted(op, isScalar(f.fieldFlags), out, heap)]

\* a reader calls f.value(u)
CallValue ==
  /\ built
  /\ \E f \in fieldsOfT1 : \E u \in Entities :
       res' = called("value", f, u, value(f, heap, u), u, nilInterface)
  /\ UNCHANGED <<pc, entry, opts, m, idx, sb, panicVal, ret, prev, heap, writes>>

\* a reader calls f.inline(u)
CallInline ==
  /\ built
  /\ \E f \in fieldsOfT1 : \E u \in Entities :
       res' = called("inline", f, u, inline(f, heap, u), u, nilInterface)
  /\ UNCHANGED <<pc, entry, opts, m, idx, sb, panicVal, ret, prev, heap, writes>>

\* a reader calls f.comparableValue on two entities, to compare them
CallComparableValue ==
  /\ built
  /\ \E f \in fieldsOfT1 : \E u \in Entities : \E u2 \in Entities :
       res' = called("comparableValue", f, u, comparableValue(f, heap, u),
                     u2, comparableValue(f, heap, u2))
  /\ UNCHANGED <<pc, entry, opts, m, idx, sb, panicVal, ret, prev, heap, writes>>

NextAccess ==
  \/ Write
  \/ CallValue
  \/ CallInline
  \/ CallComparableValue

SpecAccess == AccessInit /\ [][NextAccess]_vars

---------------------------------------------------------------------------
(* Readers of a built schema: every call is two steps, the call and the    *)
(* return, and the steps of the readers interleave.                        *)

Readers == {"r1", "r2"}

\* the memory of the records while the readers run
ReadersHeap ==
  recordT1(E1, 7, V1, R1, 0) @@ recordT1(E2, -1, V2, R2, V3)
  @@ recordT2(R1) @@ recordT2(R2)
  @@ (V1 :> 7) @@ (V2 :> 7) @@ (V3 :> 200)

\* the attributes that readers look up: two of the schema, one unknown
LookedUp == {"X", Self, "Q"}

\* the record types that readers look up: one of the schema, one unknown
LookedUpTypes == {"*T1", "*T2"}

\* the schema after getOrdinal, were a lookup of an unknown attribute to
\* insert it in the map
getOrdinalSchema_inserting(sc, attribute) ==
  IF attribute \in DOMAIN sc.attrToOrdinal THEN sc
  ELSE [sc EXCEPT !.attrToOrdinal = @ @@ (attribute :> 0)]

\* the schema after getOrdinal: ord, ok := sc.attrToOrdinal[attribute]
\* reads the map
getOrdinalSchema(sc, attribute) == sc

\* the memory after an accessor, were it to take the value out of an
\* optional field
memoryAfterAccess_taking(f, h, u) ==
  IF isPtr(f.fieldFlags) THEN [h EXCEPT ![u + f.offset] = 0] ELSE h

\* the memory after an accessor of f ran on the record at u: the accessors
\* read through reflect.NewAt, Elem, Interface, Int and Uint
memoryAfterAccess(f, h, u) == h

\* the entity type schema of a record type (a pointer, 0 when the schema
\* has none)
entityTypeSchemaOf(sc, t) ==
  IF t \in DOMAIN sc.entityTypeSchemas THEN sc.entityTypeSchemas[t] ELSE 0

Idle == [stage |-> "idle", op |-> "", a |-> "", t |-> "", f |-> NoFieldInfo,
         u |-> 0, out |-> 0]

\* the calls a reader makes
Calls ==
  {[Idle EXCEPT !.stage = "called", !.op = op, !.a = a] :
     op \in {"getOrdinal", "mustGetOrdinal"}, a \in LookedUp}
  \cup {[Idle EXCEPT !.stage = "called", !.op = "entityTypeSchema", !.t = t] :
          t \in LookedUpTypes}
  \cup {[Idle EXCEPT !.stage = "called", !.op = op, !.f = f, !.u = u] :
          op \in {"value", "comparableValue", "inline"},
          f \in fieldsOfT1, u \in Entities}

\* what the call c returns on schema sc and memory h
resultOf(c, sc, h) ==
  CASE c.op = "getOrdinal" -> getOrdinal(sc, c.a)
    [] c.op = "mustGetOrdinal" -> mustGetOrdinal(sc, c.a)
    [] c.op = "entityTypeSchema" -> entityTypeSchemaOf(sc, c.t)
    [] c.op = "value" -> value(c.f, h, c.u)
    [] c.op = "comparableValue" -> comparableValue(c.f, h, c.u)
    [] c.op = "inline" -> inline(c.f, h, c.u)

ReadersInit ==
  /\ pc = "done"
  /\ entry = "MustSchema"
  /\ opts = AccessOptions
  /\ m = applyOptions(AccessOptions)
  /\ idx = Len(AccessOptions) + 2
  /\ sb = buildSchema(applyOptions(AccessOptions), 0, newSchemaBuilder).sb
  /\ panicVal = NoPanic
  /\ ret = [schema |-> "sb.Schema", err |-> NilErr, panic |-> NoPanic]
  /\ prev = NoPrev
  /\ heap = ReadersHeap
  /\ writes = 0
  /\ res = [r \in Readers |-> Idle]

\* reader r calls getOrdinal, looks up an entity type schema, or calls an
\* accessor of a field of T1 on a record
ReaderCall ==
  /\ built
  /\ \E r \in Readers : \E c \in Calls :
       /\ res[r].stage \in {"idle", "returned"}
       /\ res' = [res EXCEPT ![r] = c]
  /\ UNCHANGED <<pc, entry, opts, m, idx, sb, panicVal, ret, prev, heap, writes>>

\* the call of reader r runs and returns
ReaderReturn ==
  /\ \E r \in Readers :
       /\ res[r].stage = "called"
       /\ res' = [res EXCEPT ![r].stage = "returned",
                             ![r].out = resultOf(res[r], sb, heap)]
       /\ sb' = IF res[r].op \in {"getOrdinal", "mustGetOrdinal"}
                  THEN getOrdinalSchema(sb, res[r].a) ELSE sb
       /\ heap' = IF res[r].op \in {"value", "comparableValue", "inline"}
                    THEN memoryAfterAccess(res[r].f, heap, res[r].u)
                    ELSE heap
  /\ UNCHANGED <<pc, entry, opts, m, idx, panicVal, ret, prev, writes>>

NextReaders ==
  \/ ReaderCall
  \/ ReaderReturn

SpecReaders == ReadersInit /\ [][NextReaders]_vars

---------------------------------------------------------------------------
(* Properties of the construction.                                         *)

\* every step of buildSchema was taken: every declaration and every
\* mapping of the options was registered, then Self and Type, then the sort
fullyBuilt ==
  /\ idx = nAttrTypes + nEntityMappings + 2
  /\ \A k \in 1..nAttrTypes : m.attrTypes[k].a \in DOMAIN sb.attrToOrdinal
  /\ Len(sb.objs) = nEntityMappings
  /\ \A k \in 1..nEntityMappings :
       /\ m.entityMappings[k].typ \in DOMAIN sb.entityTypeSchemas
       /\ \A am \in {m.entityMappings[k].attrMappings[i] :
                       i \in 1..Len(m.entityMappings[k].attrMappings)} :
            am.selectors # <<>> => am.a \in DOMAIN sb.attrToOrdinal
  /\ {Self, Type} \subseteq DOMAIN sb.attrToOrdinal

\* C1: NewSchema returns (schema, nil) when no step of buildSchema panicked,
\* and then the schema is fully built, or (nil, error) when a step panicked,
\* with an error value or with any other value; never a schema with an
\* error, never a panic, never a schema of an aborted construction.
C1_NewSchemaOutcome ==
  (pc = "done" /\ entry = "NewSchema") =>
    /\ ret.panic = NoPanic
    /\ IF panicVal = NoPanic
         THEN ret.schema = "sb.Schema" /\ ret.err.isNil /\ fullyBuilt
         ELSE /\ ret.schema = "nil"
              /\ ~ret.err.isNil
              /\ ret.err.cause = panicVal

\* NewSchema returned after a step panicked with a value that is no error
C1_Witness ==
  /\ pc = "done"
  /\ entry = "NewSchema"
  /\ panicVal.kind = "value"
  /\ ret.schema = "nil"
  /\ ~ret.err.isNil

\* C2: in a built schema the ordinals are exactly 0..|A|-1 without gaps or
\* repeats, attrs[attrToOrdinal[a]] = a, and attrs and attrTypes have
\* length |A|; Self and Type are among the attributes.
C2_OrdinalDensity ==
  built =>
    LET A == DOMAIN sb.attrToOrdinal
    IN /\ {sb.attrToOrdinal[a] : a \in A} = 0..(Cardinality(A) - 1)
       /\ \A a1, a2 \in A :
            sb.attrToOrdinal[a1] = sb.attrToOrdinal[a2] => a1 = a2
       /\ Len(sb.attrs) = Cardinality(A)
       /\ Len(sb.attrTypes) = Cardinality(A)
       /\ \A a \in A : sb.attrs[sb.attrToOrdinal[a] + 1] = a
       /\ {Self, Type} \subseteq A

\* a built schema with two user attributes besides Self and Type
C2_Witness ==
  /\ built
  /\ Cardinality(DOMAIN sb.attrToOrdinal) = 4
  /\ sb.attrToOrdinal[Type] = 3

\* C4: in a built schema with T distinct record types the typIDs looked up
\* by record type are exactly 0..T-1, each used once, for any sequence of
\* record-type mappings.
C4_RanksDense ==
  built =>
    LET ids == typIDs(sb)
    IN /\ {ids[t] : t \in DOMAIN ids} = 0..(Cardinality(DOMAIN ids) - 1)
       /\ \A t1, t2 \in DOMAIN ids : ids[t1] = ids[t2] => t1 = t2

\* the calls of maybeAddAttribute made so far
callsMade == {sb.calls[k] : k \in 1..Len(sb.calls)}

\* the construction was aborted by the panic p and gave no schema
abortedWith(p) ==
  /\ panicVal = p
  /\ pc \in {"unwind", "done"}
  /\ pc = "done" =>
       /\ ret.schema = "nil"
       /\ entry = "NewSchema" => ~ret.err.isNil /\ ret.err.cause = p
       /\ entry = "MustSchema" => ret.panic = p

\* C5: when an attribute whose type was fixed as a non-interface type is
\* used with another type, the construction fails, and the failure names
\* the attribute and both types.
C5_MismatchRejected ==
  \A c \in callsMade :
    (c.prev # "" /\ Kind(c.prev) # "Interface" /\ c.typ # c.prev) =>
      /\ c.panicked
      /\ abortedWith(ErrorPanic("type mismatch: is not", c.a, c.typ, c.prev,
                                <<>>))

\* X was fixed as int16 by a field of T1, then used with the int8 field of
\* T2, and NewSchema returned the error
C5_Witness ==
  /\ pc = "done"
  /\ entry = "NewSchema"
  /\ ret.err.cause = ErrorPanic("type mismatch: is not", "X", "int8",
                                "int16", <<>>)
  /\ \E k \in 1..nEntityMappings : m.entityMappings[k].typ = "*T2"

\* C6: a use of an attribute whose fixed type is an interface is accepted
\* exactly when the type used implements the interface, a use of an
\* attribute whose fixed type is no interface exactly when the type is the
\* same; an accepted use returns the attribute's ordinal and leaves the
\* fixed type, a rejected use aborts the construction.
C6_TypeUnification ==
  \A c \in callsMade :
    c.prev # "" =>
      LET accepted == IF Kind(c.prev) = "Interface"
                        THEN Implements(c.typ, c.prev)
                        ELSE c.typ = c.prev
      IN /\ c.panicked = ~accepted
         /\ c.ord = sb.attrToOrdinal[c.a]
         /\ sb.attrTypes[c.ord + 1] = c.prev
         /\ sb.attrs[c.ord + 1] = c.a
         /\ c.panicked => /\ panicVal.kind = "error"
                          /\ panicVal.attr = c.a
                          /\ pc \in {"unwind", "done"}
                          /\ pc = "done" => ret.schema = "nil"

\* X was declared a Stringer, the field I of type ID was mapped to it, and
\* the schema was built with that field under X's ordinal
C6_Witness ==
  /\ built
  /\ \E c \in callsMade :
       c.a = "X" /\ c.prev = "Stringer" /\ c.typ = "ID" /\ ~c.panicked
  /\ \E k \in 1..Len(sb.objs) :
       \E i \in 1..Len(sb.objs[k].fields) :
         /\ sb.objs[k].fields[i].path = <<"I">>
         /\ sb.objs[k].fields[i].attr = sb.attrToOrdinal["X"]

\* the place of every field of a record of struct type t: the path from the
\* record through directly nested structs, the distance in bytes from the
\* start of the record, the declared type
RECURSIVE layout(_, _, _)
layout(t, prefix, base) ==
  UNION { LET f == Fields(t)[i]
          IN {[path |-> prefix \o f.Name, offset |-> base + f.Offset,
               typ |-> f.Type]}
             \cup (IF Kind(f.Type) = "Struct"
                     THEN layout(f.Type, prefix \o f.Name \o <<".">>,
                                 base + f.Offset)
                     ELSE {})
        : i \in 1..Len(Fields(t)) }

\* the fieldInfos made so far, each with its record type
fieldInfosMade ==
  UNION { {[typ |-> sb.objs[k].typ, f |-> sb.objs[k].fields[i]] :
             i \in 1..Len(sb.objs[k].fields)} : k \in 1..Len(sb.objs) }

\* C7: the offset resolved for a selector that names a field through
\* directly nested structs is the distance of that field from the start of
\* the record, the sum of the offsets of the segments, and the type is the
\* field's declared type.
C7_SelectorOffset ==
  \A x \in fieldInfosMade :
    \A l \in layout(Elem(x.typ), <<>>, 0) :
      l.path = x.f.path => x.f.offset = l.offset /\ x.f.cur = l.typ

\* the selector A.S of T1 was resolved to 8 + 8
C7_Witness ==
  \E x \in fieldInfosMade :
    /\ x.typ = "*T1"
    /\ x.f.path = <<"A", ".", "S">>
    /\ x.f.offset = 16
    /\ x.f.cur = "string"

\* a segment of the selector names no field of the struct it is looked up
\* in (t a struct type, names the segments)
RECURSIVE missingField(_, _)
missingField(t, names) ==
  IF names = <<>> THEN FALSE
  ELSE IF ~FieldByName(t, Head(names)).ok THEN TRUE
  ELSE IF Kind(FieldByName(t, Head(names)).Type) # "Struct" THEN FALSE
  ELSE missingField(FieldByName(t, Head(names)).Type, Tail(names))

\* the segments of a selector, written out
segments(sel) ==
  CASE sel = <<>> -> << <<>> >>
    [] Len(sel) = 1 -> << sel >>
    [] Len(sel) = 3 /\ sel[2] = "." -> << <<sel[1]>>, <<sel[3]>> >>

\* the mapping that buildSchema is at
mappingAt == m.entityMappings[idx - nAttrTypes + 1]

atMapping == /\ idx >= nAttrTypes
             /\ idx < nAttrTypes + nEntityMappings

\* C8: a selector with a segment that names no field of the current struct
\* makes the construction fail, with an error that names the record type
\* and the selector, and no schema is returned.
C8_MissingFieldRejected ==
  /\ \A k \in 1..nEntityMappings :
       \A p \in {selectorPairs(m.entityMappings[k].attrMappings)[i] :
                   i \in 1..Len(selectorPairs(m.entityMappings[k].attrMappings))} :
         (/\ isStructPointer(m.entityMappings[k].typ)
          /\ missingField(Elem(m.entityMappings[k].typ), segments(p.sel))) =>
            /\ ~built
            /\ idx > nAttrTypes + k - 1 => pc \in {"unwind", "done"}
            /\ (pc \in {"unwind", "done"} /\ idx = nAttrTypes + k - 1
                /\ selectorPairs(m.entityMappings[k].attrMappings)[1] = p) =>
                 abortedWith(ErrorPanic("is not a field", "",
                                        m.entityMappings[k].typ, "", p.sel))
  /\ panicVal.tag = "is not a field" =>
       /\ panicVal.kind = "error"
       /\ atMapping
       /\ panicVal.t1 = mappingAt.typ
       /\ missingField(Elem(mappingAt.typ), segments(panicVal.sel))
       /\ \E i \in 1..Len(selectorPairs(mappingAt.attrMappings)) :
            selectorPairs(mappingAt.attrMappings)[i].sel = panicVal.sel

\* NewSchema returned the error for the selector A.Z of T1
C8_Witness ==
  /\ pc = "done"
  /\ entry = "NewSchema"
  /\ ret.schema = "nil"
  /\ ret.err.cause = ErrorPanic("is not a field", "", "*T1", "",
                                <<"A", ".", "Z">>)

\* C3: a schema built twice from the same options, supplied in two
\* different orders, gives every record type the same typID.
C3_RankDeterminism ==
  (built /\ prev.built) => typIDs(sb) = prev.typID

---------------------------------------------------------------------------
(* Properties of the accessors.                                            *)

\* the fields of T1 that the accessors read, as the record is laid out
placesOfT1 == {l \in layout("T1", <<>>, 0) : l.path = res.path}

\* an integer v as the unsigned word that holds it
asWord(v) == IF v >= 0 THEN v ELSE v + 2 ^ WordBits

isIntegerType(t) == Kind(t) \in {"Int8", "Int16", "Uint8"}

isScalarType(t) == isIntegerType(t) \/ Kind(t) = "String"

\* C9: for an optional integer field, value() returns nil and inline()
\* returns (0, false) when the field is unset; when it is set to v, value()
\* returns the integer v of the pointed-to type, not the wrapper, and
\* inline() returns (v, true), v as the unsigned word that holds it.
C9_OptionalInteger ==
  (res.fresh /\ res.op \in {"value", "inline"}) =>
    \A l \in placesOfT1 :
      (Kind(l.typ) = "Ptr" /\ isIntegerType(Elem(l.typ))) =>
        IF heap[res.u + l.offset] = 0
          THEN res.out = IF res.op = "value" THEN nilInterface
                         ELSE <<0, FALSE>>
          ELSE res.out =
                 IF res.op = "value"
                   THEN Interface(Elem(l.typ), heap[heap[res.u + l.offset]])
                   ELSE <<asWord(heap[heap[res.u + l.offset]]), TRUE>>

\* inline() of the optional field P of a T1, set to 7, returned (7, true)
C9_Witness ==
  /\ res.fresh
  /\ res.op = "inline"
  /\ res.path = <<"P">>
  /\ heap[res.u + 32] # 0
  /\ heap[heap[res.u + 32]] = 7
  /\ res.out = <<7, TRUE>>

\* the underlying value of the scalar field at l of the record at u: <<v>>,
\* or <<>> when the field is an unset optional
underlying(l, u) ==
  IF Kind(l.typ) = "Ptr"
    THEN IF heap[u + l.offset] = 0 THEN <<>>
         ELSE <<heap[heap[u + l.offset]]>>
  ELSE <<heap[u + l.offset]>>

\* the storage of the underlying value of the scalar field at l of the
\* record at u
storage(l, u) ==
  IF Kind(l.typ) = "Ptr" THEN heap[u + l.offset] ELSE u + l.offset

scalarPlace(l) ==
  IF Kind(l.typ) = "Ptr" THEN isScalarType(Elem(l.typ))
  ELSE isScalarType(l.typ)

structPlace(l) == Kind(l.typ) = "Ptr" /\ Kind(Elem(l.typ)) = "Struct"

\* what the struct-reference field at l of the record at u holds, as an
\* interface value: the stored reference, or nil when it is unset
reference(l, u) ==
  IF heap[u + l.offset] = 0 THEN nilInterface
  ELSE Interface(l.typ, heap[u + l.offset])

\* C11: for a pointer-to-struct field value() and comparableValue() return
\* the stored reference itself when it is set and nil when it is unset, so
\* the comparableValue() results of two fields are equal exactly when the
\* fields reference the same entity, whatever the entities hold.
C11_StructReference ==
  (res.fresh /\ res.op \in {"value", "comparableValue"}) =>
    \A l \in placesOfT1 :
      structPlace(l) =>
        /\ res.out = reference(l, res.u)
        /\ res.op = "comparableValue" =>
             /\ res.out2 = reference(l, res.u2)
             /\ (res.out = res.out2)
                  <=> (heap[res.u + l.offset] = heap[res.u2 + l.offset])

\* comparableValue() of the field N of two T1 that reference the two T2 at
\* R1 and R2, equal field by field, returned unequal results
C11_Witness ==
  /\ res.fresh
  /\ res.op = "comparableValue"
  /\ res.path = <<"N">>
  /\ heap[res.u + 40] = R1
  /\ heap[res.u2 + 40] = R2
  /\ \A d \in {0, 16, 24} : heap[R1 + d] = heap[R2 + d]
  /\ res.out # res.out2
  /\ res.out = Interface("*T2", R1)

---------------------------------------------------------------------------
(* Properties of the attribute limit and of the reserved attributes.       *)

\* the attributes a mapping names with at least one selector
mappedAttributes(tm) ==
  {tm.attrMappings[i].a : i \in {j \in 1..Len(tm.attrMappings) :
                                   tm.attrMappings[j].selectors # <<>>}}

\* the distinct user attributes the options register
userAttributes ==
  ({m.attrTypes[k].a : k \in 1..nAttrTypes}
     \cup UNION {mappedAttributes(m.entityMappings[k]) :
                   k \in 1..nEntityMappings})
  \ {Self, Type}

tooMany == ErrorPanic("too many attributes", "", "", "", <<>>)

\* C12: no built schema has an attribute of ordinal maxUserAttribute or
\* more; every registration of a new attribute in a schema that already
\* holds maxUserAttribute attributes fails with 'too many attributes', so
\* options that register more than maxUserAttribute distinct attributes
\* never give a schema.
C12_TooManyAttributes ==
  /\ built =>
       /\ \A a \in DOMAIN sb.attrToOrdinal :
            sb.attrToOrdinal[a] < maxUserAttribute
       /\ Len(sb.attrs) <= maxUserAttribute
  /\ \A c \in callsMade :
       (c.prev = "" /\ c.ord >= maxUserAttribute) =>
         c.panicked /\ abortedWith(tooMany)
  /\ Cardinality(userAttributes) > maxUserAttribute => ~built

\* NewSchema returned 'too many attributes' for options that register one
\* attribute more than maxUserAttribute
C12_Witness ==
  /\ pc = "done"
  /\ entry = "NewSchema"
  /\ Cardinality(userAttributes) = maxUserAttribute + 1
  /\ ret.schema = "nil"
  /\ ret.err.cause = tooMany
  /\ \E c \in callsMade : c.ord = maxUserAttribute /\ c.panicked

\* C13: a construction from options that register exactly maxUserAttribute
\* distinct user attributes is not rejected for the number of attributes.
C13_MaximumSucceeds ==
  (pc = "done" /\ Cardinality(userAttributes) = maxUserAttribute) =>
    panicVal # tooMany

\* the reserved attribute a is present and resolvable in the schema, under
\* the ordinal ord the schema keeps for it
reservedResolves(a, ord) ==
  /\ a \in DOMAIN sb.attrToOrdinal
  /\ sb.attrToOrdinal[a] = ord
  /\ sb.attrs[ord + 1] = a
  /\ getOrdinal(sb, a).err = NoPanic
  /\ getOrdinal(sb, a).ord = ord

\* the type the options declare for attribute a, "" when they declare none
declaredType(a) ==
  IF \E k \in 1..nAttrTypes : m.attrTypes[k].a = a
    THEN m.attrTypes[CHOOSE k \in 1..nAttrTypes :
                       /\ m.attrTypes[k].a = a
                       /\ \A j \in 1..(k - 1) : m.attrTypes[j].a # a].typ
    ELSE ""

\* C14 as stated: in every built schema Self and Type resolve to two
\* different ordinals, the schema's selfOrdinal and typeOrdinal, and their
\* declared types are the empty interface and reflect.Type.
C14_ReservedTypes ==
  built =>
    /\ reservedResolves(Self, sb.selfOrdinal)
    /\ reservedResolves(Type, sb.typeOrdinal)
    /\ sb.selfOrdinal # sb.typeOrdinal
    /\ sb.attrTypes[sb.selfOrdinal + 1] = emptyInterfaceType
    /\ sb.attrTypes[sb.typeOrdinal + 1] = reflectTypeType

\* C14 as amended: in every built schema Self and Type resolve to two
\* different ordinals, the schema's selfOrdinal and typeOrdinal; the
\* declared type of each is the empty interface and reflect.Type unless the
\* options declared the attribute themselves, and then it is the type the
\* options declared, an interface that the reserved type implements.
C14_ReservedAttributes ==
  built =>
    /\ reservedResolves(Self, sb.selfOrdinal)
    /\ reservedResolves(Type, sb.typeOrdinal)
    /\ sb.selfOrdinal # sb.typeOrdinal
    /\ sb.attrTypes[sb.selfOrdinal + 1] =
         IF declaredType(Self) = "" THEN emptyInterfaceType
         ELSE declaredType(Self)
    /\ sb.attrTypes[sb.typeOrdinal + 1] =
         IF declaredType(Type) = "" THEN reflectTypeType
         ELSE declaredType(Type)
    /\ \/ sb.attrTypes[sb.selfOrdinal + 1] = emptyInterfaceType
       \/ /\ Kind(sb.attrTypes[sb.selfOrdinal + 1]) = "Interface"
          /\ Implements(emptyInterfaceType, sb.attrTypes[sb.selfOrdinal + 1])
    /\ \/ sb.attrTypes[sb.typeOrdinal + 1] = reflectTypeType
       \/ /\ Kind(sb.attrTypes[sb.typeOrdinal + 1]) = "Interface"
          /\ Implements(reflectTypeType, sb.attrTypes[sb.typeOrdinal + 1])

\* a schema built from no options: Self has ordinal 0 and Type ordinal 1
C14_Witness ==
  /\ built
  /\ opts = <<>>
  /\ getOrdinal(sb, Self).ord = 0
  /\ getOrdinal(sb, Type).ord = 1
  /\ sb.selfOrdinal = 0
  /\ sb.typeOrdinal = 1
  /\ sb.attrTypes = <<emptyInterfaceType, reflectTypeType>>

---------------------------------------------------------------------------
(* Properties of the classification of fields and of record types.         *)

signedKinds == {"Int", "Int8", "Int16", "Int32", "Int64"}
unsignedKinds == {"Uint", "Uint8", "Uint16", "Uint32", "Uint64"}

\* the type a pointer type points to, any other type itself
pointee(t) == IF Kind(t) = "Ptr" THEN Elem(t) ELSE t

\* a signed or unsigned integer, a string, a pointer to one of those, or a
\* pointer to a struct
supportedType(t) ==
  \/ Kind(pointee(t)) \in signedKinds \cup unsignedKinds \cup {"String"}
  \/ Kind(t) = "Ptr" /\ Kind(Elem(t)) = "Struct"

\* the flags of a field of type t, for a supported t
flagsOf(t) ==
  (IF Kind(t) = "Ptr" THEN {"pointerField"} ELSE {})
  \cup (IF Kind(pointee(t)) \in signedKinds THEN {"intField"} ELSE {})
  \cup (IF Kind(pointee(t)) \in unsignedKinds THEN {"uintField"} ELSE {})
  \cup (IF Kind(pointee(t)) = "String" THEN {"stringField"} ELSE {})
  \cup (IF Kind(pointee(t)) = "Struct" THEN {"structField"} ELSE {})

\* the selector pairs of mapping k of the options
pairsOf(k) ==
  {selectorPairs(m.entityMappings[k].attrMappings)[i] :
     i \in 1..Len(selectorPairs(m.entityMappings[k].attrMappings))}

\* C15: every field descriptor made has a supported type, exactly one of
\* the kind flags, the struct flag only with the pointer flag, and the flags
\* of its type; a mapping with a selector that resolves to any other type
\* aborts the construction, with the unsupported-type error when that
\* selector is the first of the mapping.
C15_FieldKinds ==
  /\ \A x \in fieldInfosMade :
       /\ supportedType(x.f.cur)
       /\ Cardinality(x.f.fieldFlags \cap {"intField", "uintField",
                                            "stringField", "structField"}) = 1
       /\ isStruct(x.f.fieldFlags) => isPtr(x.f.fieldFlags)
       /\ x.f.fieldFlags = flagsOf(x.f.cur)
  /\ \A k \in 1..nEntityMappings : \A p \in pairsOf(k) :
       \A l \in (IF isStructPointer(m.entityMappings[k].typ)
                   THEN layout(Elem(m.entityMappings[k].typ), <<>>, 0)
                   ELSE {}) :
         (l.path = p.sel /\ ~supportedType(l.typ)) =>
           /\ ~built
           /\ idx > nAttrTypes + k - 1 => pc \in {"unwind", "done"}
           /\ (pc \in {"unwind", "done"} /\ idx = nAttrTypes + k - 1
               /\ selectorPairs(m.entityMappings[k].attrMappings)[1] = p) =>
                abortedWith(ErrorPanic("has unsupported type", "",
                                       m.entityMappings[k].typ, l.typ, p.sel))
  /\ panicVal.tag = "has unsupported type" => ~supportedType(panicVal.t2)

\* NewSchema returned the unsupported-type error for the field PP of T3, a
\* pointer to a pointer
C15_Witness ==
  /\ pc = "done"
  /\ entry = "NewSchema"
  /\ ret.schema = "nil"
  /\ ret.err.cause = ErrorPanic("has unsupported type", "", "*T3",
                                "**int16", <<"PP">>)

\* the number of selectors of the mappings before mapping k
RECURSIVE selectorsBefore(_)
selectorsBefore(k) ==
  IF k <= 1 THEN 0
  ELSE selectorsBefore(k - 1)
       + Len(selectorPairs(m.entityMappings[k - 1].attrMappings))

\* C16: a mapping whose target is no pointer to a struct aborts the
\* construction with the error naming the type, before any of its selectors
\* is resolved and any of its attributes is registered; every entity type
\* schema made is of a pointer-to-struct type.
C16_StructPointerTargets ==
  /\ \A k \in 1..Len(sb.objs) :
       /\ Kind(sb.objs[k].typ) = "Ptr"
       /\ Kind(Elem(sb.objs[k].typ)) = "Struct"
  /\ \A k \in 1..nEntityMappings :
       LET typ == m.entityMappings[k].typ
       IN (Kind(typ) # "Ptr" \/ Kind(Elem(typ)) # "Struct") =>
            /\ ~built
            /\ idx > nAttrTypes + k - 1 => pc \in {"unwind", "done"}
            /\ (pc \in {"unwind", "done"} /\ idx = nAttrTypes + k - 1) =>
                 /\ abortedWith(ErrorPanic("is not a pointer to a struct",
                                           "", typ, "", <<>>))
                 /\ Len(sb.calls) = nAttrTypes + selectorsBefore(k)
                 /\ Len(sb.objs) = k - 1

\* NewSchema returned the error for a mapping of int16 behind a pointer,
\* and the attribute Q of the mapping was not registered
C16_Witness ==
  /\ pc = "done"
  /\ entry = "NewSchema"
  /\ ret.schema = "nil"
  /\ ret.err.cause = ErrorPanic("is not a pointer to a struct", "", "*int16",
                                "", <<>>)
  /\ "Q" \notin DOMAIN sb.attrToOrdinal

---------------------------------------------------------------------------
(* Properties of the readers.                                              *)

\* the schema the readers use, as MustSchema returned it
schemaRead == buildSchema(applyOptions(AccessOptions), 0, newSchemaBuilder).sb

registrations == {c \in callsMade : c.prev = "" /\ ~c.panicked}

unknownAttribute(a) == ErrorPanic("unknown attribute", a, "", "", <<>>)

\* C18: getOrdinal of an attribute of the schema returns the ordinal given
\* at its registration and no error; getOrdinal of any other attribute
\* returns ordinal 0 and the unknown-attribute error, and mustGetOrdinal
\* panics with that error; the schema is the same after the lookup.
C18_OrdinalLookup ==
  \A r \in Readers :
    (res[r].stage = "returned"
     /\ res[r].op \in {"getOrdinal", "mustGetOrdinal"}) =>
      /\ sb = schemaRead
      /\ \A c \in registrations :
           c.a = res[r].a =>
             /\ res[r].out.ord = c.ord
             /\ res[r].op = "getOrdinal" => res[r].out.err = NoPanic
             /\ res[r].op = "mustGetOrdinal" => res[r].out.panic = NoPanic
      /\ (\A c \in registrations : c.a # res[r].a) =>
           /\ res[r].out.ord = 0
           /\ res[r].op = "getOrdinal" =>
                res[r].out.err = unknownAttribute(res[r].a)
           /\ res[r].op = "mustGetOrdinal" =>
                res[r].out.panic = unknownAttribute(res[r].a)

\* getOrdinal of the unknown attribute Q returned the error, then
\* mustGetOrdinal of Q panicked with it, and getOrdinal of Self returned
\* its ordinal
C18_Witness ==
  /\ res["r1"].stage = "returned"
  /\ res["r1"].op = "mustGetOrdinal"
  /\ res["r1"].a = "Q"
  /\ res["r1"].out.panic = unknownAttribute("Q")
  /\ res["r2"].stage = "returned"
  /\ res["r2"].op = "getOrdinal"
  /\ res["r2"].a = Self
  /\ res["r2"].out = [ord |-> 4, err |-> NoPanic]

---------------------------------------------------------------------------
(* Properties of the two constructors.                                     *)

\* both constructors have run on the same options
bothRan == pc = "done" /\ prev # NoPrev

\* what NewSchema gave, and what MustSchema gave
ofNewSchema ==
  IF entry = "NewSchema" THEN [ret |-> ret, sb |-> sb]
  ELSE [ret |-> prev.ret, sb |-> prev.sb]

ofMustSchema ==
  IF entry = "MustSchema" THEN [ret |-> ret, sb |-> sb]
  ELSE [ret |-> prev.ret, sb |-> prev.sb]

\* C19: on the same options MustSchema returns a schema exactly when
\* NewSchema returns (schema, nil), and the two schemas are identical;
\* MustSchema panics exactly when NewSchema returns an error, with the value
\* that NewSchema recovers and wraps, and NewSchema itself never panics.
C19_SameConstruction ==
  bothRan =>
    /\ prev.entry = otherConstructor(entry)
    /\ ofNewSchema.ret.panic = NoPanic
    /\ (ofMustSchema.ret.schema = "sb.Schema" /\ ofMustSchema.ret.panic = NoPanic)
         <=> (ofNewSchema.ret.schema = "sb.Schema" /\ ofNewSchema.ret.err.isNil)
    /\ ofMustSchema.ret.schema = "sb.Schema" => ofMustSchema.sb = ofNewSchema.sb
    /\ (ofMustSchema.ret.panic # NoPanic) <=> ~ofNewSchema.ret.err.isNil
    /\ ofMustSchema.ret.panic # NoPanic =>
         /\ ofMustSchema.ret.schema = "nil"
         /\ ofNewSchema.ret.schema = "nil"
         /\ ofNewSchema.ret.err.cause = ofMustSchema.ret.panic

\* NewSchema returned an error for a mapping of T1 by value, and MustSchema
\* then panicked on the same options with the error NewSchema had wrapped
C19_Witness ==
  /\ bothRan
  /\ entry = "MustSchema"
  /\ ret.panic = ErrorPanic("is not a pointer to a struct", "", "T1", "",
                            <<>>)
  /\ prev.ret.err.cause = ret.panic
  /\ prev.ret.schema = "nil"

---------------------------------------------------------------------------
(* Properties of the results that the caller keeps.                        *)

\* the addresses of the memory of the T1 at u
ownMemory(u) == u..(u + 63)

\* the result out is a pointer into the memory of the record at u
pointsInto(out, u) ==
  /\ out # nilInterface
  /\ Kind(out.typ) = "Ptr"
  /\ out.val \in ownMemory(u)

---------------------------------------------------------------------------
(* Properties of the entity type schemas.                                  *)

\* the number of elements of the sequence s that are x
RECURSIVE occurrences(_, _)
occurrences(s, x) ==
  IF s = <<>> THEN 0
  ELSE (IF Head(s) = x THEN 1 ELSE 0) + occurrences(Tail(s), x)

\* the paths of a sequence of fieldInfos
pathsOf(fs) == [i \in 1..Len(fs) |-> fs[i].path]

\* the selectors that mapping k of the options gives attribute a, in order
selectorsOf(k, a) ==
  LET ps == selectorPairs(m.entityMappings[k].attrMappings)
      named(p) == p.a = a
  IN [i \in 1..Len(SelectSeq(ps, named)) |-> SelectSeq(ps, named)[i].sel]

---------------------------------------------------------------------------
(* Properties of the order of the registrations.                           *)

\* the declarations of the option list, in the order of the list
declarations == SelectSeq(opts, isAttrType)

\* the first declaration of the attribute of declaration k
firstDeclaration(k) ==
  CHOOSE j \in 1..k :
    /\ declarations[j].a = declarations[k].a
    /\ \A i \in 1..(j - 1) : declarations[i].a # declarations[k].a

\* typ is accepted for an attribute of declared type exp
conforms(typ, exp) ==
  IF Kind(exp) = "Interface" THEN Implements(typ, exp) ELSE typ = exp

callsOfStep == SubSeq(sb'.calls, Len(sb.calls) + 1, Len(sb'.calls))

\* the first registration of attribute a among the calls made so far
firstRegistration(a) ==
  sb.calls[CHOOSE k \in 1..Len(sb.calls) :
             /\ sb.calls[k].a = a
             /\ \A j \in 1..(k - 1) : sb.calls[j].a # a]

\* C23: the type and the ordinal of an attribute are those of its first
\* registration: no step of a construction changes the ordinal or the type
\* of a registered attribute, the number of attributes grows by the first
\* registrations of the step only, and a later registration of an attribute
\* finds the type of the first one and either aborts the construction or
\* returns the ordinal of the first one.
C23_OneDeclaredType ==
  [][ pc = "build" =>
        /\ \A a \in DOMAIN sb.attrToOrdinal :
             /\ a \in DOMAIN sb'.attrToOrdinal
             /\ sb'.attrToOrdinal[a] = sb.attrToOrdinal[a]
             /\ sb'.attrTypes[sb.attrToOrdinal[a] + 1]
                  = sb.attrTypes[sb.attrToOrdinal[a] + 1]
             /\ sb'.attrs[sb.attrToOrdinal[a] + 1] = a
             /\ firstRegistration(a).prev = ""
             /\ firstRegistration(a).typ
                  = sb.attrTypes[sb.attrToOrdinal[a] + 1]
             /\ firstRegistration(a).ord = sb.attrToOrdinal[a]
        /\ Len(sb'.attrs) - Len(sb.attrs)
             = Cardinality({k \in 1..Len(callsOfStep) :
                              /\ callsOfStep[k].prev = ""
                              /\ ~callsOfStep[k].panicked})
        /\ Len(sb'.attrTypes) = Len(sb'.attrs)
        /\ \A k \in 1..Len(callsOfStep) :
             callsOfStep[k].prev # "" =>
               /\ callsOfStep[k].a \in DOMAIN sb'.attrToOrdinal
               /\ callsOfStep[k].prev
                    = sb'.attrTypes[sb'.attrToOrdinal[callsOfStep[k].a] + 1]
               /\ callsOfStep[k].ord = sb'.attrToOrdinal[callsOfStep[k].a]
               /\ callsOfStep[k].panicked =>
                    pc' = "unwind" /\ k = Len(callsOfStep)
  ]_vars

\* X was declared a Stringer and then registered again by the field I of
\* type ID: the schema is built, X is still a Stringer under ordinal 0, and
\* the schema has the three attributes X, Self and Type
C23_Witness ==
  /\ built
  /\ Len(sb.calls) = 4
  /\ sb.calls[1] = [a |-> "X", typ |-> "Stringer", prev |-> "", ord |-> 0,
                    panicked |-> FALSE]
  /\ sb.calls[2] = [a |-> "X", typ |-> "ID", prev |-> "Stringer", ord |-> 0,
                    panicked |-> FALSE]
  /\ m.entityMappings # <<>>
  /\ sb.attrTypes[1] = "Stringer"
  /\ Len(sb.attrs) = 3

---------------------------------------------------------------------------
(* Properties of the ordinals of the reserved attributes.                  *)

\* the attributes that the options name, in a declaration or in a mapping
namedByOptions ==
  {m.attrTypes[k].a : k \in 1..nAttrTypes}
  \cup UNION {mappedAttributes(m.entityMappings[k]) :
                k \in 1..nEntityMappings}

\* C24 as stated: in every built schema with N attributes the ordinal of
\* Self is N-2 and the ordinal of Type is N-1, also when the options name
\* Self or Type.
C24_ReservedHighest ==
  built =>
    /\ sb.attrToOrdinal[Self] = Len(sb.attrs) - 2
    /\ sb.attrToOrdinal[Type] = Len(sb.attrs) - 1

\* C24 as amended: Self and then Type are the last two registrations of a
\* construction; in a built schema with N attributes from options that name
\* neither, Self has ordinal N-2 and Type N-1; a reserved attribute that the
\* options name keeps the ordinal of its first registration by the options,
\* below the ordinals of the reserved attributes the options do not name,
\* which are the highest.
C24_ReservedLast ==
  built =>
    LET N == Len(sb.attrs)
        n == Len(sb.calls)
    IN /\ n >= 2
       /\ sb.calls[n - 1].a = Self
       /\ sb.calls[n - 1].typ = emptyInterfaceType
       /\ sb.calls[n].a = Type
       /\ sb.calls[n].typ = reflectTypeType
       /\ namedByOptions \cap {Self, Type} = {} =>
            /\ sb.attrToOrdinal[Self] = N - 2
            /\ sb.attrToOrdinal[Type] = N - 1
       /\ \A a \in {Self, Type} :
            IF a \in namedByOptions
              THEN /\ sb.attrToOrdinal[a] = firstRegistration(a).ord
                   /\ sb.calls[IF a = Self THEN n - 1 ELSE n].prev # ""
                   /\ sb.attrToOrdinal[a]
                        < N - Cardinality({Self, Type} \ namedByOptions)
              ELSE /\ sb.calls[IF a = Self THEN n - 1 ELSE n].prev = ""
                   /\ sb.attrToOrdinal[a]
                        >= N - Cardinality({Self, Type} \ namedByOptions)

\* a schema built from a declaration of Self as the empty interface and a
\* mapping of T1: Self has ordinal 0, below the attribute of the mapping,
\* and Type has the highest ordinal
C24_Witness ==
  /\ built
  /\ Len(opts) = 2
  /\ opts[1] = AttrType(Self, emptyInterfaceType)
  /\ nEntityMappings = 1
  /\ Len(sb.attrs) >= 3
  /\ sb.attrToOrdinal[Self] = 0
  /\ sb.selfOrdinal = 0
  /\ sb.attrToOrdinal[Type] = Len(sb.attrs) - 1

---------------------------------------------------------------------------
(* Properties of the inline encoding.                                      *)

\* the fieldInfo of T1 whose accessor was called
fieldCalled == CHOOSE f \in fieldsOfT1 : f.path = res.path

\* C25: inline() returns (0, false) for a string field and for a struct
\* reference whatever they hold; for a plain integer field it returns the
\* value as an unsigned word and true, also when the value is 0; for an
\* optional integer field (0, false) when unset and the value pointed to
\* and true when set; so for an integer field it reports present exactly
\* when value() does not return nil.
C25_InlinePresence ==
  (res.fresh /\ res.op = "inline") =>
    \A l \in placesOfT1 :
      /\ Kind(pointee(l.typ)) \in {"String", "Struct"} =>
           res.out = <<0, FALSE>>
      /\ (isIntegerType(l.typ)) =>
           res.out = <<asWord(heap[res.u + l.offset]), TRUE>>
      /\ (Kind(l.typ) = "Ptr" /\ isIntegerType(Elem(l.typ))) =>
           res.out = IF heap[res.u + l.offset] = 0 THEN <<0, FALSE>>
                     ELSE <<asWord(heap[heap[res.u + l.offset]]), TRUE>>
      /\ isIntegerType(pointee(l.typ)) =>
           (res.out[2] <=> value(fieldCalled, heap, res.u) # nilInterface)

\* inline() of the plain field X of a T1 that holds 0 returned (0, true)
C25_Witness ==
  /\ res.fresh
  /\ res.op = "inline"
  /\ res.path = <<"X">>
  /\ heap[res.u + 2] = 0
  /\ res.out = <<0, TRUE>>

---------------------------------------------------------------------------
(* Properties of selectors that leave the record.                          *)

\* the type of the first field that a segment of names, not the last one,
\* finds in t or in the structs nested in it and that is no struct; "" when
\* there is none
RECURSIVE leavesRecordAt(_, _)
leavesRecordAt(t, names) ==
  IF Len(names) < 2 \/ ~FieldByName(t, Head(names)).ok THEN ""
  ELSE IF Kind(FieldByName(t, Head(names)).Type) # "Struct"
    THEN FieldByName(t, Head(names)).Type
  ELSE leavesRecordAt(FieldByName(t, Head(names)).Type, Tail(names))

\* C26: a mapping with a selector of which a segment before the last names
\* a field that is not a struct held by value never gives a schema and no
\* field descriptor is made for the selector; when the selector is the
\* first of the mapping, NewSchema returns no schema and an error for the
\* panic of the field lookup on the type that is no struct, and does not
\* panic.
C26_IndirectionRejected ==
  /\ \A k \in 1..nEntityMappings :
       LET tm == m.entityMappings[k]
       IN \A p \in pairsOf(k) :
            (/\ isStructPointer(tm.typ)
             /\ leavesRecordAt(Elem(tm.typ), segments(p.sel)) # "") =>
               /\ ~built
               /\ Len(sb.objs) < k
               /\ idx > nAttrTypes + k - 1 => pc \in {"unwind", "done"}
               /\ (pc = "done" /\ idx = nAttrTypes + k - 1
                   /\ selectorPairs(tm.attrMappings)[1] = p
                   /\ entry = "NewSchema") =>
                    /\ ret.schema = "nil"
                    /\ ret.panic = NoPanic
                    /\ ~ret.err.isNil
                    /\ ret.err.cause =
                         ReflectPanic(leavesRecordAt(Elem(tm.typ),
                                                     segments(p.sel)))
  /\ \A x \in fieldInfosMade :
       leavesRecordAt(Elem(x.typ), segments(x.f.path)) = ""

\* NewSchema returned an error and no schema for the selector N.S of T1,
\* whose first segment names a pointer to a T2
C26_Witness ==
  /\ pc = "done"
  /\ entry = "NewSchema"
  /\ ret.schema = "nil"
  /\ ret.panic = NoPanic
  /\ ~ret.err.isNil
  /\ ret.err.cause = ReflectPanic("*T2")
  /\ \E k \in 1..nEntityMappings : \E p \in pairsOf(k) :
       p.sel = <<"N", ".", "S">>

---------------------------------------------------------------------------
(* Properties of the list of the entity type schemas.                      *)

\* C27: in a built schema entityTypes and entityTypeSchemas hold the same
\* entity type schemas, one for every record type mapped: they have the
\* same length, entityTypes[k].typID = k, entityTypeSchemas looked up by
\* the type of entityTypes[k] is entityTypes[k], and the whole list is in
\* the canonical order; also when a record type is mapped more than once.
C27_ListMatchesIndex ==
  built =>
    /\ Len(sb.entityTypes) = Cardinality(DOMAIN sb.entityTypeSchemas)
    /\ {sb.objs[sb.entityTypes[k]].typ : k \in 1..Len(sb.entityTypes)}
         = {m.entityMappings[k].typ : k \in 1..nEntityMappings}
    /\ \A k \in 1..Len(sb.entityTypes) :
         /\ sb.objs[sb.entityTypes[k]].typID = k - 1
         /\ sb.entityTypeSchemas[sb.objs[sb.entityTypes[k]].typ]
              = sb.entityTypes[k]
    /\ \A k, l \in 1..Len(sb.entityTypes) :
         k < l => compareTypes(sb.objs[sb.entityTypes[k]].typ,
                               sb.objs[sb.entityTypes[l]].typ).less

---------------------------------------------------------------------------
(* Properties of promoted fields.                                          *)

\* the places of the fields that struct type t promotes from the structs
\* it embeds: the name alone is the path, the offset is the distance from
\* the start of t
promotedPlaces(t) ==
  UNION { IF Fields(t)[i].Anonymous /\ Kind(Fields(t)[i].Type) = "Struct"
            THEN {[path |-> Fields(Fields(t)[i].Type)[j].Name,
                   offset |-> Fields(t)[i].Offset
                                + Fields(Fields(t)[i].Type)[j].Offset,
                   typ |-> Fields(Fields(t)[i].Type)[j].Type] :
                    j \in {n \in 1..Len(Fields(Fields(t)[i].Type)) :
                             \A d \in 1..Len(Fields(t)) :
                               Fields(t)[d].Name
                                 # Fields(Fields(t)[i].Type)[n].Name}}
            ELSE {}
        : i \in 1..Len(Fields(t)) }

\* C28: the offset resolved for a selector that names a field promoted from
\* an embedded struct is the distance of that field from the start of the
\* record, and the type is the type of that field.
C28_PromotedOffset ==
  \A x \in fieldInfosMade :
    \A l \in promotedPlaces(Elem(x.typ)) :
      l.path = x.f.path => x.f.offset = l.offset /\ x.f.cur = l.typ

---------------------------------------------------------------------------
(* Properties of the type registered for a field.                          *)

\* C29: the type registered and validated for a field that is a pointer to
\* a scalar is the type pointed to, the type registered for any other field
\* (a plain scalar, a pointer to a struct) is the type of the field; the
\* field was registered with that type under its attribute and the type
\* conforms to the type of the attribute, so a plain field and an optional
\* field of one element type are fields of one attribute.
C29_OptionalUnifies ==
  /\ \A x \in fieldInfosMade :
       /\ x.f.typ = IF Kind(x.f.cur) = "Ptr"
                        /\ Kind(Elem(x.f.cur)) # "Struct"
                      THEN Elem(x.f.cur) ELSE x.f.cur
       /\ conforms(x.f.typ, sb.attrTypes[x.f.attr + 1])
       /\ \E c \in callsMade :
            /\ c.a = sb.attrs[x.f.attr + 1]
            /\ c.typ = x.f.typ
            /\ c.ord = x.f.attr
            /\ ~c.panicked
  /\ \A c \in callsMade :
       Kind(c.typ) = "Ptr" => Kind(Elem(c.typ)) = "Struct"
  /\ (pc = "done"
      /\ m.attrTypes = <<>>
      /\ m.entityMappings
           = << EntityMapping("*T1", << EntityAttr("X", << <<"P">> >>) >>),
                EntityMapping("*T0", << EntityAttr("X", << <<"X">> >>) >>) >>)
       => built

\* a schema built from a mapping of X to the *int16 field P of T1 and a
\* mapping of X to the int16 field X of T0: X is an int16, and the two
\* fields are fields of X
C29_Witness ==
  /\ built
  /\ Len(sb.objs) = 2
  /\ sb.objs[1].typ = "*T1" /\ sb.objs[2].typ = "*T0"
  /\ sb.objs[1].fields[1].cur = "*int16"
  /\ sb.objs[2].fields[1].cur = "int16"
  /\ sb.objs[1].fields[1].attr = sb.objs[2].fields[1].attr
  /\ sb.attrTypes[sb.attrToOrdinal["X"] + 1] = "int16"

\* C30: for an integer field no wider than the machine word, inline()
\* encodes a present value v as v modulo 2^WordBits: v itself when v is not
\* negative (every unsigned value), v + 2^WordBits when it is; the encodings
\* of a negative and of a non-negative value of the field lie in different
\* halves of the word, and the encodings of the field of two records are
\* equal exactly when the values are equal.
C30_InlineInjective ==
  (res.fresh /\ res.op = "inline" /\ res.out[2]) =>
    \A l \in placesOfT1 :
      (/\ isIntegerType(pointee(l.typ))
       /\ KindBits(Kind(pointee(l.typ))) <= WordBits) =>
        LET v == underlying(l, res.u)[1]
        IN /\ res.out[1] = asWord(v)
           /\ res.out[1] \in 0..(2 ^ WordBits - 1)
           /\ (res.out[1] - v) % (2 ^ WordBits) = 0
           /\ Kind(pointee(l.typ)) \in unsignedKinds => res.out[1] = v
           /\ Kind(pointee(l.typ)) \in signedKinds =>
                ((v < 0) <=> (res.out[1] >= 2 ^ (WordBits - 1)))
           /\ \A u2 \in Entities :
                inline(fieldCalled, heap, u2)[2] =>
                  ((res.out[1] = inline(fieldCalled, heap, u2)[1])
                     <=> (v = underlying(l, u2)[1]))

\* inline() of the field X of a T1 that holds -7 returned the word
\* 2^WordBits - 7 while the field X of the other T1 holds 7
C30_Witness ==
  /\ res.fresh
  /\ res.op = "inline"
  /\ res.path = <<"X">>
  /\ heap[res.u + 2] = -7
  /\ res.out = <<2 ^ WordBits - 7, TRUE>>
  /\ \E u2 \in Entities : heap[u2 + 2] = 7

====
